---- MODULE Spec2Model ----
(***************************************************************************)
(* A model of the decoders of apk-info: the compiled resource table        *)
(* (ARSC) lookup, the ZIP reader (EOCD scan, central directory, read with  *)
(* tamper handling) and the queries over the decoded AndroidManifest tree. *)
(* Each component has its own specification (SpecArsc, SpecEocd, SpecZip,  *)
(* SpecAxml); the variables of the other components stay at their initial  *)
(* value.                                                                  *)
(***************************************************************************)
EXTENDS Integers, Sequences, FiniteSets, TLC

VARIABLES
    \* ARSC
    packages,        \* ARSC.packages: package id -> resources (config -> type id -> entries)
    grv_stack,       \* the ids of the active get_resource_value calls, outermost first
    grv_state,       \* "idle" | "running" | "done"
    grv_result,      \* None, or Some(string) once grv_state = "done"
    \* find_eocd
    eocd_input,      \* the bytes handed to find_eocd
    chunk_size,      \* its chunk_size argument
    eocd_end,        \* the local `end`
    eocd_state,      \* "scan" | "done"
    eocd_result,     \* None, or Some(offset)
    \* ZipEntry
    zip_raw,         \* the raw archive: input length, central directory records, local headers
    zip_state,       \* "raw" | "open" | "failed"
    central_directory, \* CentralDirectory.entries, in insertion order
    local_headers,   \* ZipEntry.local_headers
    read_name,       \* the file name of the last read
    read_sizes,      \* the sizes, offset and deflate outcome the last read worked with
    read_result,     \* the last read's result
    \* AXML
    root,            \* AXML.root
    query,           \* the last query made
    query_result,    \* and what it returned
    \* the parsers that run once over an input (constructors, string pool,
    \* signing block, package chunks) and the table lookups
    parse_input,     \* the bytes, or the arguments, handed to the operation
    cursor,          \* how far the parser has read into the input
    pstate,          \* "ready" | "running" | "done" ("idle": not in use)
    result           \* what the operation returned

arscVars == <<packages, grv_stack, grv_state, grv_result>>
eocdVars == <<eocd_input, chunk_size, eocd_end, eocd_state, eocd_result>>
zipVars  == <<zip_raw, zip_state, central_directory, local_headers,
              read_name, read_sizes, read_result>>
axmlVars == <<root, query, query_result>>
parseVars == <<parse_input, cursor, pstate, result>>
vars == <<arscVars, eocdVars, zipVars, axmlVars, parseVars>>

None == [some |-> FALSE, val |-> "" ]
Some(v) == [some |-> TRUE, val |-> v]

(***************************************************************************)
(* ARSC: resource table and get_resource_value                             *)
(***************************************************************************)

\* Entries per type vector in the generated tables.
MaxEntries == 2
\* The deepest chain of nested get_resource_value calls the model follows:
\* one more than a chain that visits every id of the table and one absent id.
MaxDepth == MaxEntries + 3

\* ResourceValueType discriminants
TypeReference == 1
TypeString == 3
TypeDec == 16

\* The package id of the application and one that no generated table holds.
AppPackageId == 127
AbsentPackageId == 1
TheTypeId == 1

\* ResTableConfig::default() and one other configuration, in BTreeMap order.
DefaultConfig == 0
OtherConfig == DefaultConfig + 1

\* ResTablePackage::generate_res_id
generate_res_id(package_id, type_id, name_id) ==
    name_id + type_id * 65536 + package_id * 16777216

\* ARSC::split_resource_id
split_resource_id(id) ==
    [package_id |-> id \div 16777216,
     type_id    |-> (id \div 65536) % 256,
     entry_id   |-> id % 65536]

\* ResTableEntry
NoEntry == [kind |-> "NoEntry", data_type |-> 0, data |-> 0]
ComplexEntry == [kind |-> "Complex", data_type |-> 0, data |-> 0]
CompactEntry == [kind |-> "Compact", data_type |-> 0, data |-> 0]
DefaultEntry(dt, d) == [kind |-> "Default", data_type |-> dt, data |-> d]

\* The global string pool of the generated tables.
global_string_pool == <<"Example">>

\* StringPool::get
PoolGet(pool, idx) == IF idx + 1 \in DOMAIN pool THEN Some(pool[idx + 1]) ELSE None

\* ResourceValue::to_string, for the value types the generated tables hold
ValueToString(e, pool) ==
    CASE e.data_type = TypeString ->
            (IF PoolGet(pool, e.data).some THEN PoolGet(pool, e.data).val ELSE "")
      [] e.data_type = TypeDec -> ToString(e.data)
      [] OTHER -> "<unknown>"

AppIds == {generate_res_id(AppPackageId, TheTypeId, e) : e \in 0..(MaxEntries - 1)}
AbsentId == generate_res_id(AbsentPackageId, TheTypeId, 0)
QueryIds == AppIds \cup {generate_res_id(AppPackageId, TheTypeId, MaxEntries), AbsentId}

DefaultAlphabet ==
    {NoEntry, ComplexEntry, CompactEntry, DefaultEntry(TypeString, 0)}
        \cup {DefaultEntry(TypeReference, r) : r \in AppIds \cup {AbsentId}}
OtherAlphabet == {NoEntry, ComplexEntry, DefaultEntry(TypeDec, 7)}

\* resources: BTreeMap<ResTableConfig, HashMap<u8, Vec<ResTableEntry>>>
ResourcesSet ==
    LET defOpts == {<<>>} \cup
            {DefaultConfig :> (TheTypeId :> v) : v \in [1..MaxEntries -> DefaultAlphabet]}
        othOpts == {<<>>} \cup
            {OtherConfig :> (TheTypeId :> v) :
                v \in UNION {[1..n -> OtherAlphabet] : n \in 0..MaxEntries}}
    IN {d @@ o : d \in defOpts, o \in othOpts}

\* The entry of `entries` at entry_id when it is there and is not NoEntry.
EntryAt(type_map, type_id, entry_id) ==
    IF type_id \in DOMAIN type_map /\ (entry_id + 1) \in DOMAIN type_map[type_id]
       /\ type_map[type_id][entry_id + 1].kind # "NoEntry"
    THEN Some(type_map[type_id][entry_id + 1])
    ELSE None

\* The fallback loop of get_entry over the configs in BTreeMap order.
RECURSIVE OtherConfigs(_, _, _, _, _)
OtherConfigs(resources, todo, config, type_id, entry_id) ==
    IF todo = {} THEN None
    ELSE LET c == CHOOSE x \in todo : \A y \in todo : x <= y
         IN IF c # config /\ EntryAt(resources[c], type_id, entry_id).some
            THEN EntryAt(resources[c], type_id, entry_id)
            ELSE OtherConfigs(resources, todo \ {c}, config, type_id, entry_id)

\* A get_entry that looks in the requested config only.
get_entry_no_fallback(resources, config, type_id, entry_id) ==
    IF config \in DOMAIN resources
    THEN EntryAt(resources[config], type_id, entry_id)
    ELSE None

\* ResTablePackage::get_entry (called find_entry by ARSC)
get_entry(resources, config, type_id, entry_id) ==
    IF config \in DOMAIN resources /\ EntryAt(resources[config], type_id, entry_id).some
    THEN EntryAt(resources[config], type_id, entry_id)
    ELSE OtherConfigs(resources, DOMAIN resources, config, type_id, entry_id)

InitArsc ==
    /\ packages \in {AppPackageId :> r : r \in ResourcesSet}
    /\ grv_stack = <<>>
    /\ grv_state = "idle"
    /\ grv_result = None
    /\ eocd_input = <<>> /\ chunk_size = 0 /\ eocd_end = 0
    /\ eocd_state = "done" /\ eocd_result = None
    /\ zip_raw = <<>> /\ zip_state = "failed" /\ central_directory = <<>>
    /\ local_headers = <<>> /\ read_name = "" /\ read_sizes = <<>>
    /\ read_result = <<>>
    /\ parse_input = <<>> /\ cursor = 0 /\ pstate = "idle" /\ result = None
    /\ root = <<>> /\ query = <<>> /\ query_result = None

\* A caller enters ARSC::get_resource_value(id).
GetResourceValue(id) ==
    /\ grv_state # "running"
    /\ grv_stack' = <<id>>
    /\ grv_state' = "running"
    /\ grv_result' = None
    /\ UNCHANGED <<packages, eocdVars, zipVars, axmlVars, parseVars>>

GrvReturn(r) ==
    /\ grv_state' = "done"
    /\ grv_result' = r
    /\ UNCHANGED <<packages, grv_stack>>

\* The body of the innermost active call of get_resource_value: it returns,
\* and with it every caller (each returns its callee's result), or it calls
\* itself on the referenced id.
GrvBody ==
    /\ grv_state = "running"
    /\ LET id == grv_stack[Len(grv_stack)]
           s == split_resource_id(id)
       IN IF s.package_id \notin DOMAIN packages
          THEN GrvReturn(None)
          ELSE LET found == get_entry(packages[s.package_id], DefaultConfig,
                                      s.type_id, s.entry_id)
               IN IF ~found.some
                  THEN GrvReturn(None)
                  ELSE LET e == found.val
                       IN IF e.kind = "Default"
                          THEN IF e.data_type = TypeReference
                               THEN IF e.data = id
                                    THEN GrvReturn(None)
                                    ELSE /\ Len(grv_stack) < MaxDepth
                                         /\ grv_stack' = Append(grv_stack, e.data)
                                         /\ UNCHANGED <<packages, grv_state, grv_result>>
                               ELSE GrvReturn(Some(ValueToString(e, global_string_pool)))
                          ELSE GrvReturn(None)
    /\ UNCHANGED <<eocdVars, zipVars, axmlVars, parseVars>>

NextArsc ==
    \/ \E id \in QueryIds : GetResourceValue(id)
    \/ GrvBody

SpecArsc == InitArsc /\ [][NextArsc]_vars

\* The id the outermost get_resource_value call was made with, split.
GrvQuery == split_resource_id(grv_stack[1])

\* The configs of the queried package that hold an entry other than NoEntry
\* at the queried (type id, entry id).
GrvHolders ==
    IF GrvQuery.package_id \in DOMAIN packages
    THEN {c \in DOMAIN packages[GrvQuery.package_id] :
            EntryAt(packages[GrvQuery.package_id][c],
                    GrvQuery.type_id, GrvQuery.entry_id).some}
    ELSE {}

\* The entry the lookup selects among the holders: the default config's,
\* otherwise the one of the first other config.
GrvSelected ==
    LET res == packages[GrvQuery.package_id]
        c == IF DefaultConfig \in GrvHolders THEN DefaultConfig
             ELSE CHOOSE x \in GrvHolders : \A y \in GrvHolders : x <= y
    IN res[c][GrvQuery.type_id][GrvQuery.entry_id + 1]

\* C1 (as claimed): get_resource_value terminates on every table, cycles of
\* Reference entries included. The lookup is a deterministic function of the
\* id, so it terminates exactly when no call is entered for an id that an
\* enclosing call is still resolving: the ids of the call chain are distinct.
C1_Terminates ==
    \A i, j \in DOMAIN grv_stack : i # j => grv_stack[i] # grv_stack[j]

\* C2 (as claimed): when the package of R is present and some config holds an
\* entry other than NoEntry at R, get_resource_value(R) returns Some, whatever
\* the kind of that entry.
C2_AnyEntryGivesValue ==
    (grv_state = "done" /\ GrvHolders # {}) => grv_result.some

\* C2 (amended): when the package of R is present and some config holds an
\* entry other than NoEntry at R, the lookup selects the default config's entry
\* or else the first other config's; get_resource_value(R) returns Some (the
\* rendered value) when the selected entry is a Default entry whose value is not
\* a Reference, and None when it is Complex, Compact or a Reference to R itself.
C2_SelectedEntryDecides ==
    (grv_state = "done" /\ GrvHolders # {}) =>
        /\ (GrvSelected.kind = "Default" /\ GrvSelected.data_type # TypeReference)
              => grv_result = Some(ValueToString(GrvSelected, global_string_pool))
        /\ GrvSelected.kind \in {"Complex", "Compact"} => grv_result = None
        /\ (GrvSelected.kind = "Default" /\ GrvSelected.data_type = TypeReference
              /\ GrvSelected.data = grv_stack[1]) => grv_result = None

\* C2 witness: only the other config holds the entry, and a value is returned.
C2_Witness ==
    /\ grv_state = "done"
    /\ GrvHolders = {OtherConfig}
    /\ GrvSelected.kind = "Default"
    /\ grv_result.some

(***************************************************************************)
(* EndOfCentralDirectory::find_eocd                                        *)
(***************************************************************************)

\* The longest input and the largest chunk size tried. ZipEntry::new scans
\* in chunks of 4096 bytes; the model scans in chunks from MinChunk bytes up.
MaxInputLen == 9
MaxChunk == 5
MinChunk == 4

\* EndOfCentralDirectory::MAGIC
MAGIC == <<80, 75, 5, 6>>

\* input[start..end], positions counted from 0
Slice(input, start, end) == [i \in 1..(end - start) |-> input[start + i]]

\* Does `needle` stand at position pos (from 0) of `hay`?
MatchAt(hay, needle, pos) ==
    /\ pos + Len(needle) <= Len(hay)
    /\ \A k \in 1..Len(needle) : hay[pos + k] = needle[k]

\* memmem::rfind: the position of the last occurrence of needle in hay
rfind(hay, needle) ==
    LET hits == {pos \in 0..Len(hay) : MatchAt(hay, needle, pos)}
    IN IF hits = {} THEN None
       ELSE Some(CHOOSE p \in hits : \A q \in hits : q <= p)

\* usize::saturating_sub
saturating_sub(a, b) == IF a >= b THEN a - b ELSE 0

\* The inputs tried: filler bytes with the signature written at up to two places.
MakeInput(len, sigs) ==
    [i \in 1..len |->
        LET cover == {p \in sigs : p < i /\ i <= p + 4}
        IN IF cover = {} THEN 0
           ELSE MAGIC[i - (CHOOSE p \in cover : \A q \in cover : q <= p)]]

EocdInputs ==
    UNION {{MakeInput(len, sigs) :
              sigs \in {s \in SUBSET (0..(len - 4)) : Cardinality(s) <= 2}} :
           len \in 0..MaxInputLen}

InitEocd ==
    /\ eocd_input \in EocdInputs
    /\ chunk_size \in MinChunk..MaxChunk
    /\ eocd_end = Len(eocd_input)
    /\ eocd_state = "scan"
    /\ eocd_result = None
    /\ packages = <<>> /\ grv_stack = <<>> /\ grv_state = "idle" /\ grv_result = None
    /\ zip_raw = <<>> /\ zip_state = "failed" /\ central_directory = <<>>
    /\ local_headers = <<>> /\ read_name = "" /\ read_sizes = <<>>
    /\ read_result = <<>>
    /\ parse_input = <<>> /\ cursor = 0 /\ pstate = "idle" /\ result = None
    /\ root = <<>> /\ query = <<>> /\ query_result = None

\* One pass of the `while end > 0` loop of find_eocd
ScanChunk ==
    /\ eocd_state = "scan"
    /\ eocd_end > 0
    /\ LET start == saturating_sub(eocd_end, chunk_size)
           chunk == Slice(eocd_input, start, eocd_end)
           pos == rfind(chunk, MAGIC)
       IN IF pos.some
          THEN /\ eocd_result' = Some(start + pos.val)
               /\ eocd_state' = "done"
               /\ UNCHANGED eocd_end
          ELSE /\ eocd_end' = start
               /\ UNCHANGED <<eocd_result, eocd_state>>
    /\ UNCHANGED <<eocd_input, chunk_size, arscVars, zipVars, axmlVars, parseVars>>

\* The loop ends with nothing found: find_eocd returns None
ScanExhausted ==
    /\ eocd_state = "scan"
    /\ eocd_end = 0
    /\ eocd_state' = "done"
    /\ eocd_result' = None
    /\ UNCHANGED <<eocd_input, chunk_size, eocd_end, arscVars, zipVars, axmlVars, parseVars>>

NextEocd ==
    \/ ScanChunk
    \/ ScanExhausted

SpecEocd == InitEocd /\ [][NextEocd]_vars

\* The positions (from 0) at which the signature stands in the input.
SignatureAt == {p \in 0..Len(eocd_input) : MatchAt(eocd_input, MAGIC, p)}

\* C3 (as claimed): find_eocd returns the offset of a signature whenever the
\* signature occurs in the input, wherever it lies relative to the chunk
\* boundaries, and None only when it occurs nowhere.
C3_FindsSignature ==
    eocd_state = "done" =>
        /\ SignatureAt # {} => (eocd_result.some /\ eocd_result.val \in SignatureAt)
        /\ ~eocd_result.some => SignatureAt = {}

(***************************************************************************)
(* ZipEntry: new, namelist, read                                           *)
(***************************************************************************)

\* The largest size field and the most central directory records tried.
MaxSize == 2
MaxRecords == 2

\* 4 (MAGIC) + 26 (DATA) of a local file header
LfhFixedSize == 30
\* compression methods: stored, deflate, and one that is neither
MethodStored == 0
MethodDeflate == 8
Methods == {MethodStored, MethodDeflate, 12}

\* String::from_utf8_lossy on the raw file names tried: "a" is valid UTF-8,
\* the raw names "\xfe" and "\xff" both decode to U+FFFD (written "?").
RawNames == {"a", "\\xfe", "\\xff"}
from_utf8_lossy(raw) == IF raw = "a" THEN "a" ELSE "?"

\* A HashMap as the sequence of its (key, value) pairs.
HasKey(map, k) == \E i \in DOMAIN map : map[i].key = k
GetValue(map, k) == map[CHOOSE i \in DOMAIN map : map[i].key = k].value

\* An insert that never replaces: the map grows by one pair per call.
InsertNoReplace(map, k, v) == Append(map, [key |-> k, value |-> v])

\* HashMap::insert, as collect() applies it: a present key keeps its place
\* and takes the new value
HashMapInsert(map, k, v) ==
    IF HasKey(map, k)
    THEN [i \in DOMAIN map |-> IF map[i].key = k THEN [key |-> k, value |-> v] ELSE map[i]]
    ELSE Append(map, [key |-> k, value |-> v])

\* repeat(0.., CentralDirectoryEntry::parse): the records up to the first one
\* that does not parse
RECURSIVE ParsedPrefix(_)
ParsedPrefix(records) ==
    IF records = <<>> \/ ~Head(records).ok THEN <<>>
    ELSE <<Head(records)>> \o ParsedPrefix(Tail(records))

\* CentralDirectoryEntry::parse: the fields of a record, the name decoded
CentralDirectoryEntry(rec) ==
    [file_name           |-> from_utf8_lossy(rec.raw_name),
     compressed_size     |-> rec.compressed_size,
     uncompressed_size   |-> rec.uncompressed_size,
     local_header_offset |-> rec.local_header_offset]

RECURSIVE CollectEntries(_, _)
CollectEntries(map, records) ==
    IF records = <<>> THEN map
    ELSE LET e == CentralDirectoryEntry(Head(records))
         IN CollectEntries(HashMapInsert(map, e.file_name, e), Tail(records))

\* CentralDirectory::parse
CentralDirectoryParse(raw) == CollectEntries(<<>>, ParsedPrefix(raw.cd))

\* LocalFileHeader::parse(input, offset)
LocalFileHeaderParse(raw, offset) ==
    IF offset <= raw.len /\ offset \in DOMAIN raw.lfh /\ raw.lfh[offset].ok
    THEN Some(raw.lfh[offset])
    ELSE None

\* The filter_map / collect of ZipEntry::new over central_directory.entries
RECURSIVE CollectLocalHeaders(_, _, _)
CollectLocalHeaders(map, raw, entries) ==
    IF entries = <<>> THEN map
    ELSE LET e == Head(entries)
             h == LocalFileHeaderParse(raw, e.value.local_header_offset)
         IN CollectLocalHeaders(
                IF h.some THEN HashMapInsert(map, e.key, h.val) ELSE map,
                raw, Tail(entries))

\* ZipEntry::namelist
namelist == [i \in DOMAIN central_directory |-> central_directory[i].key]

\* LocalFileHeader::size
LocalFileHeaderSize(h) == LfhFixedSize + h.file_name_len + h.extra_len

\* Each size taken from the local header unless that very field is zero.
EffectiveSizesPerField(lh, cde) ==
    [compressed_size   |-> IF lh.compressed_size = 0
                           THEN cde.compressed_size ELSE lh.compressed_size,
     uncompressed_size |-> IF lh.uncompressed_size = 0
                           THEN cde.uncompressed_size ELSE lh.uncompressed_size]

\* The (compressed_size, uncompressed_size) read works with
EffectiveSizes(lh, cde) ==
    IF lh.compressed_size = 0 \/ lh.uncompressed_size = 0
    THEN [compressed_size |-> cde.compressed_size,
          uncompressed_size |-> cde.uncompressed_size]
    ELSE [compressed_size |-> lh.compressed_size,
          uncompressed_size |-> lh.uncompressed_size]

\* What Decompress::decompress_vec can report for `c` bytes of input and an
\* output vector of capacity `u`: a status, total_in <= c, at most u bytes out.
NoDeflate == [status |-> "none", total_in |-> 0, out_len |-> 0]
DeflateOutcomes(c, u) ==
    IF c = 0 THEN {[status |-> "BufError", total_in |-> 0, out_len |-> 0]}
    ELSE {d \in [status : {"Ok", "StreamEnd", "BufError", "Err"},
                 total_in : 0..c, out_len : 0..u] :
            d.status = "StreamEnd" => d.total_in >= 1}

\* A validity test that looks at the status only.
IsValidStatusOnly(d, c) == d.status \in {"Ok", "StreamEnd"}

\* Ok(Status::Ok) | Ok(Status::StreamEnd) if is_valid
IsValidInflate(d, c) == d.status \in {"Ok", "StreamEnd"} /\ d.total_in = c

\* read's results: the bytes are a slice of the input or the inflated output
NoData == [src |-> "none", start |-> 0, len |-> 0]
ReadErr(e) == [ok |-> FALSE, kind |-> "", err |-> e, data |-> NoData]
ReadOk(data, kind) == [ok |-> TRUE, kind |-> kind, err |-> "", data |-> data]
InputBytes(start, n) == [src |-> "input", start |-> start, len |-> n]
Inflated(d) == [src |-> "inflate", start |-> 0, len |-> d.out_len]

\* get_slice: self.input.get(start..end).ok_or(ZipError::EOF)
SliceOk(len, start, end) == start <= end /\ end <= len

\* Is decompress_vec reached for this entry?
DeflateAttempted(method, c, u, offset, len) ==
    /\ method # MethodStored
    /\ method = MethodDeflate \/ c # u
    /\ SliceOk(len, offset, offset + c)

\* The match of read on (compression_method, compressed_size == uncompressed_size)
ReadDispatch(method, c, u, offset, len, d) ==
    LET stored(kind) == IF SliceOk(len, offset, offset + u)
                        THEN ReadOk(InputBytes(offset, u), kind)
                        ELSE ReadErr("EOF")
    IN CASE method = MethodStored -> stored("Stored")
         [] method = MethodDeflate ->
              IF ~SliceOk(len, offset, offset + c) THEN ReadErr("EOF")
              ELSE IF d.status = "Err" THEN ReadErr("DecompressionError")
              ELSE ReadOk(Inflated(d), "Deflated")
         [] method \notin {MethodStored, MethodDeflate} /\ c = u -> stored("StoredTampered")
         [] OTHER ->
              IF ~SliceOk(len, offset, offset + c) THEN ReadErr("EOF")
              ELSE IF IsValidInflate(d, c) THEN ReadOk(Inflated(d), "DeflatedTampered")
              ELSE stored("StoredTampered")

NoSizes == [compressed_size |-> 0, uncompressed_size |-> 0, offset |-> 0,
            found |-> FALSE, deflate |-> NoDeflate]

\* The raw archives tried. One family has a single entry and varies its
\* method, the four size fields, the extra field and the bytes of data that
\* follow the local header; the other varies the central directory records
\* (well-formed or not, names, local header parseable or not).
RawLfh(ok, method, c, u, extra) ==
    [ok |-> ok, compression_method |-> method, compressed_size |-> c,
     uncompressed_size |-> u, file_name_len |-> 1, extra_len |-> extra]
RawCd(ok, name, c, u, off) ==
    [ok |-> ok, raw_name |-> name, compressed_size |-> c, uncompressed_size |-> u,
     local_header_offset |-> off]
RawZip(hdr, eocd, len, cd, lfh) ==
    [header_ok |-> hdr, eocd_found |-> eocd, len |-> len, cd |-> cd, lfh |-> lfh]

LfhStride == LfhFixedSize + 2 + MaxSize

ReadFamily ==
    {RawZip(TRUE, TRUE, LfhFixedSize + 1 + extra + avail,
            <<RawCd(TRUE, "a", cc, cu, 0)>>,
            0 :> RawLfh(TRUE, method, lc, lu, extra)) :
        method \in Methods, lc \in 0..MaxSize, lu \in 0..MaxSize,
        cc \in 0..MaxSize, cu \in 0..MaxSize, extra \in 0..1, avail \in 0..MaxSize}

DirRecords(n) ==
    {[i \in 1..n |-> [cd  |-> RawCd(f[i][1], f[i][2], 1, 1, (i - 1) * LfhStride),
                      lfh |-> RawLfh(f[i][3], MethodStored, 1, 1, 0)]] :
        f \in [1..n -> BOOLEAN \X RawNames \X BOOLEAN]}

DirFamily ==
    UNION {{RawZip(TRUE, TRUE, n * LfhStride,
                   [i \in 1..n |-> r[i].cd],
                   [o \in {(i - 1) * LfhStride : i \in 1..n} |->
                        r[(o \div LfhStride) + 1].lfh]) :
              r \in DirRecords(n)} : n \in 0..MaxRecords}

BrokenFamily ==
    {RawZip(FALSE, FALSE, 0, <<>>, <<>>), RawZip(TRUE, FALSE, LfhStride, <<>>, <<>>)}

InitZip ==
    /\ zip_raw \in ReadFamily \cup DirFamily \cup BrokenFamily
    /\ zip_state = "raw"
    /\ central_directory = <<>>
    /\ local_headers = <<>>
    /\ read_name = ""
    /\ read_sizes = NoSizes
    /\ read_result = ReadErr("")
    /\ packages = <<>> /\ grv_stack = <<>> /\ grv_state = "idle" /\ grv_result = None
    /\ eocd_input = <<>> /\ chunk_size = 0 /\ eocd_end = 0
    /\ eocd_state = "done" /\ eocd_result = None
    /\ root = <<>> /\ query = <<>> /\ query_result = None
    /\ parse_input = <<>> /\ cursor = 0 /\ pstate = "idle" /\ result = None

\* ZipEntry::new
ZipNew ==
    /\ zip_state = "raw"
    /\ IF ~zip_raw.header_ok
       THEN /\ zip_state' = "InvalidHeader"
            /\ UNCHANGED <<central_directory, local_headers>>
       ELSE IF ~zip_raw.eocd_found
       THEN /\ zip_state' = "NotFoundEOCD"
            /\ UNCHANGED <<central_directory, local_headers>>
       ELSE /\ zip_state' = "open"
            /\ central_directory' = CentralDirectoryParse(zip_raw)
            /\ local_headers' =
                  CollectLocalHeaders(<<>>, zip_raw, CentralDirectoryParse(zip_raw))
    /\ UNCHANGED <<zip_raw, read_name, read_sizes, read_result,
                   arscVars, eocdVars, axmlVars, parseVars>>

\* ZipEntry::read(filename)
Read(filename) ==
    /\ zip_state = "open"
    /\ read_name' = filename
    /\ IF ~HasKey(local_headers, filename) \/ ~HasKey(central_directory, filename)
       THEN /\ read_result' = ReadErr("FileNotFound")
            /\ read_sizes' = NoSizes
       ELSE LET lh == GetValue(local_headers, filename)
                cde == GetValue(central_directory, filename)
                sz == EffectiveSizes(lh, cde)
                c == sz.compressed_size
                u == sz.uncompressed_size
                offset == cde.local_header_offset + LocalFileHeaderSize(lh)
                tried == DeflateAttempted(lh.compression_method, c, u, offset, zip_raw.len)
            IN \E d \in (IF tried THEN DeflateOutcomes(c, u) ELSE {NoDeflate}) :
                 /\ read_sizes' = [compressed_size |-> c, uncompressed_size |-> u,
                                   offset |-> offset, found |-> TRUE, deflate |-> d]
                 /\ read_result' =
                       ReadDispatch(lh.compression_method, c, u, offset, zip_raw.len, d)
    /\ UNCHANGED <<zip_raw, zip_state, central_directory, local_headers,
                   arscVars, eocdVars, axmlVars, parseVars>>

ReadNames == {"a", "?", "missing"}

NextZip ==
    \/ ZipNew
    \/ \E f \in ReadNames : Read(f)

SpecZip == InitZip /\ [][NextZip]_vars

\* The local header and central directory entry the last read worked with.
ReadLfh == GetValue(local_headers, read_name)
ReadCde == GetValue(central_directory, read_name)
ReadDone == zip_state = "open" /\ read_sizes.found
ReadStoredResult(kind) ==
    IF read_sizes.offset + read_sizes.uncompressed_size <= zip_raw.len
    THEN ReadOk(InputBytes(read_sizes.offset, read_sizes.uncompressed_size), kind)
    ELSE ReadErr("EOF")

\* C4 (as claimed): a successful read of a listed name returns exactly as many
\* bytes as the trustworthy uncompressed-size field declares: the Local File
\* Header's when nonzero, otherwise the Central Directory's.
C4_ReadLengthIsDeclared ==
    (ReadDone /\ read_result.ok /\ (\E i \in DOMAIN namelist : namelist[i] = read_name)) =>
        read_result.data.len =
            (IF ReadLfh.uncompressed_size # 0 THEN ReadLfh.uncompressed_size
             ELSE ReadCde.uncompressed_size)

\* C5 (as claimed): each size is the Local File Header's, replaced by the
\* Central Directory's when that Local File Header field is zero; the data
\* region starts at local_header_offset + 30 + name length + extra length.
C5_SizesPerField ==
    ReadDone =>
        /\ read_sizes.compressed_size =
              (IF ReadLfh.compressed_size = 0 THEN ReadCde.compressed_size
               ELSE ReadLfh.compressed_size)
        /\ read_sizes.uncompressed_size =
              (IF ReadLfh.uncompressed_size = 0 THEN ReadCde.uncompressed_size
               ELSE ReadLfh.uncompressed_size)
        /\ read_sizes.offset = ReadCde.local_header_offset + 30
                                 + ReadLfh.file_name_len + ReadLfh.extra_len

\* C5 (amended): read takes both sizes from the Local File Header when both
\* of its size fields are nonzero, and both from the Central Directory when
\* either is zero; the data region it reads starts at local_header_offset
\* plus the local header length (30 + name length + extra length).
C5_SizesBothOrNone ==
    ReadDone =>
        /\ (ReadLfh.compressed_size # 0 /\ ReadLfh.uncompressed_size # 0) =>
              /\ read_sizes.compressed_size = ReadLfh.compressed_size
              /\ read_sizes.uncompressed_size = ReadLfh.uncompressed_size
        /\ (ReadLfh.compressed_size = 0 \/ ReadLfh.uncompressed_size = 0) =>
              /\ read_sizes.compressed_size = ReadCde.compressed_size
              /\ read_sizes.uncompressed_size = ReadCde.uncompressed_size
        /\ read_sizes.offset = ReadCde.local_header_offset + 30
                                 + ReadLfh.file_name_len + ReadLfh.extra_len
        /\ read_result.data.src = "input" => read_result.data.start = read_sizes.offset

\* C5 witness: one Local File Header size is zero, the other is not and
\* differs from the Central Directory's, and the read went through.
C5_Witness ==
    /\ ReadDone /\ read_result.ok
    /\ ReadLfh.uncompressed_size = 0
    /\ ReadLfh.compressed_size # 0
    /\ ReadLfh.compressed_size # ReadCde.compressed_size
    /\ ReadLfh.extra_len > 0

\* C6 (as claimed): for a method that is neither 0 nor 8, equal sizes give
\* the stored bytes as StoredTampered; different sizes give DeflatedTampered
\* exactly when deflate consumed the whole compressed region, and in every
\* other case the stored bytes as StoredTampered, never an error.
C6_TamperedAsClaimed ==
    (ReadDone /\ ReadLfh.compression_method \notin {0, 8}) =>
        LET storedT == ReadOk(InputBytes(read_sizes.offset, read_sizes.uncompressed_size),
                              "StoredTampered")
            consumed == /\ read_sizes.deflate.status # "none"
                        /\ read_sizes.deflate.total_in = read_sizes.compressed_size
        IN IF read_sizes.compressed_size = read_sizes.uncompressed_size
           THEN read_result = storedT
           ELSE /\ (read_result.ok /\ read_result.kind = "DeflatedTampered") <=> consumed
                /\ ~consumed => read_result = storedT

\* C6 (amended): for a method that is neither 0 nor 8, read returns the EOF
\* error when the bytes it has to take (the compressed region when the sizes
\* differ, the uncompressed_size stored bytes otherwise or on fallback) reach
\* past the end of the input. Otherwise equal sizes give the stored bytes as
\* StoredTampered; different sizes give the inflated bytes as DeflatedTampered
\* exactly when deflate reports Ok or StreamEnd and has consumed the whole
\* compressed region, and the stored bytes as StoredTampered in every other case.
C6_TamperedDispatch ==
    (ReadDone /\ ReadLfh.compression_method \notin {0, 8}) =>
        IF read_sizes.compressed_size = read_sizes.uncompressed_size
        THEN read_result = ReadStoredResult("StoredTampered")
        ELSE IF read_sizes.offset + read_sizes.compressed_size > zip_raw.len
        THEN read_result = ReadErr("EOF")
        ELSE IF /\ read_sizes.deflate.status \in {"Ok", "StreamEnd"}
                /\ read_sizes.deflate.total_in = read_sizes.compressed_size
        THEN read_result = ReadOk([src |-> "inflate", start |-> 0,
                                   len |-> read_sizes.deflate.out_len], "DeflatedTampered")
        ELSE /\ read_result = ReadStoredResult("StoredTampered")
             /\ read_result.kind # "DeflatedTampered"

\* C6 witness: the sizes differ, deflate read the whole region without
\* reaching a valid end, and the stored bytes came back as StoredTampered.
C6_Witness ==
    /\ ReadDone /\ ReadLfh.compression_method \notin {0, 8}
    /\ read_sizes.compressed_size # read_sizes.uncompressed_size
    /\ read_sizes.deflate.status = "BufError"
    /\ read_sizes.deflate.total_in = read_sizes.compressed_size
    /\ read_result.ok /\ read_result.kind = "StoredTampered"

\* C7 (as claimed): for method 8, read returns Deflated only when deflate
\* consumed the complete compressed region, and a deflate failure comes back
\* as the decompression error, never as stored bytes.
C7_DeflatedOnlyIfConsumed ==
    (ReadDone /\ ReadLfh.compression_method = 8) =>
        /\ (read_result.ok /\ read_result.kind = "Deflated") =>
              read_sizes.deflate.total_in = read_sizes.compressed_size
        /\ read_sizes.deflate.status = "Err" => read_result = ReadErr("DecompressionError")
        /\ read_result.ok => read_result.data.src = "inflate"

\* The records of the raw central directory that the sequential parse reaches:
\* those before the first record that does not parse.
ParsedRecordIndexes ==
    {i \in DOMAIN zip_raw.cd : \A j \in 1..i : zip_raw.cd[j].ok}
Occurrences(seq, x) == Cardinality({i \in DOMAIN seq : seq[i] = x})

MaxFilterChildren == 2

\* minidom::Element: a name, the attributes and the child elements
Element(name, attrs, children) == [name |-> name, attrs |-> attrs, children |-> children]
NoAttrs == [n \in {} |-> ""]

\* Element::attr
Attr(e, n) == IF n \in DOMAIN e.attrs THEN Some(e.attrs[n]) ELSE None

ActionMain == "android.intent.action.MAIN"
CategoryLauncher == "android.intent.category.LAUNCHER"
CategoryInfo == "android.intent.category.INFO"

\* The manifests tried: <manifest> holding <uses-sdk> and one <application>
\* with one or two components; the first component varies in tag, enabled
\* state and intent-filters.
FilterChildAlphabet ==
    {Element("action", "name" :> ActionMain, <<>>),
     Element("category", "name" :> CategoryLauncher, <<>>),
     Element("category", "name" :> CategoryInfo, <<>>),
     Element("category", "name" :> "android.intent.category.DEFAULT", <<>>)}

FirstFilters ==
    {Element(tag, NoAttrs, ch) :
        tag \in {"intent-filter", "meta-data"},
        ch \in UNION {[1..n -> FilterChildAlphabet] : n \in 0..MaxFilterChildren}}

SecondFilters ==
    {Element("intent-filter", NoAttrs,
             <<Element("action", "name" :> ActionMain, <<>>),
               Element("category", "name" :> CategoryLauncher, <<>>)>>),
     Element("intent-filter", NoAttrs, <<Element("action", "name" :> ActionMain, <<>>)>>)}

FilterLists ==
    {<<>>} \cup {<<f>> : f \in FirstFilters}
           \cup {<<f, g>> : f \in FirstFilters, g \in SecondFilters}
           \cup {<<g, f>> : f \in FirstFilters, g \in SecondFilters}

EnabledAttrs == {NoAttrs, "enabled" :> "false", "enabled" :> "true"}

FirstComponents ==
    {Element(tag, ("name" :> ".Main") @@ en, fl) :
        tag \in {"activity", "activity-alias", "service"},
        en \in EnabledAttrs, fl \in FilterLists}

SecondComponents ==
    LET full == Element("intent-filter", NoAttrs,
                        <<Element("category", "name" :> CategoryInfo, <<>>),
                          Element("action", "name" :> ActionMain, <<>>)>>)
    IN {Element("activity", "name" :> ".Second", <<full>>),
        Element("activity-alias", ("name" :> ".Alias") @@ ("enabled" :> "false"), <<full>>)}

ComponentLists ==
    {<<c>> : c \in FirstComponents}
        \cup {<<c, d>> : c \in FirstComponents, d \in SecondComponents}
        \cup {<<d, c>> : c \in FirstComponents, d \in SecondComponents}

Manifests ==
    {Element("manifest",
             ("package" :> "com.example.app") @@ ("name" :> "root"),
             <<Element("uses-sdk", "minSdkVersion" :> "21", <<>>),
               Element("application", "label" :> "Example", cl)>>) :
        cl \in ComponentLists}

\* Iterator::find over children(): the first child named tag
RECURSIVE FindChild(_, _)
FindChild(children, tag) ==
    IF children = <<>> THEN None
    ELSE IF Head(children).name = tag THEN Some(Head(children))
    ELSE FindChild(Tail(children), tag)

\* AXML::get_attribute_value
get_attribute_value(r, tag, name) ==
    IF r.name = tag THEN Attr(r, name)
    ELSE LET found == FindChild(r.children, tag)
         IN IF found.some THEN Attr(found.val, name) ELSE None

\* The `for child in intent_filter.children()` loop of get_main_activities
RECURSIVE ScanIntentFilter(_, _, _)
ScanIntentFilter(children, has_main, has_launcher) ==
    IF children = <<>> THEN FALSE
    ELSE LET child == Head(children)
             m == has_main \/ (child.name = "action"
                                 /\ Attr(child, "name") = Some(ActionMain))
             l == has_launcher \/ (child.name = "category"
                                     /\ Attr(child, "name") \in
                                           {Some(CategoryLauncher), Some(CategoryInfo)})
         IN IF m /\ l THEN TRUE ELSE ScanIntentFilter(Tail(children), m, l)

\* A test of an element that accepts an intent-filter with the MAIN action alone.
intent_filter_matches_main_only(intent_filter) ==
    /\ intent_filter.name = "intent-filter"
    /\ \E i \in DOMAIN intent_filter.children :
          /\ intent_filter.children[i].name = "action"
          /\ Attr(intent_filter.children[i], "name") = Some(ActionMain)

\* The closure given to activity.children().any(..)
intent_filter_matches(intent_filter) ==
    /\ intent_filter.name = "intent-filter"
    /\ ScanIntentFilter(intent_filter.children, FALSE, FALSE)

\* The filter_map closure of get_main_activities
main_activity_name(activity) ==
    IF (activity.name # "activity" /\ activity.name # "activity-alias")
       \/ Attr(activity, "enabled") = Some("false")
    THEN None
    ELSE IF \E i \in DOMAIN activity.children : intent_filter_matches(activity.children[i])
    THEN Attr(activity, "name")
    ELSE None

RECURSIVE FilterMapNames(_)
FilterMapNames(elems) ==
    IF elems = <<>> THEN <<>>
    ELSE LET n == main_activity_name(Head(elems))
         IN (IF n.some THEN <<n.val>> ELSE <<>>) \o FilterMapNames(Tail(elems))

\* filter(name == "application").flat_map(children)
RECURSIVE ApplicationChildren(_)
ApplicationChildren(elems) ==
    IF elems = <<>> THEN <<>>
    ELSE (IF Head(elems).name = "application" THEN Head(elems).children ELSE <<>>)
            \o ApplicationChildren(Tail(elems))

\* AXML::get_main_activities, collected
get_main_activities(r) == FilterMapNames(ApplicationChildren(r.children))

AttrQueries ==
    {<<"manifest", "package">>, <<"uses-sdk", "minSdkVersion">>,
     <<"application", "label">>, <<"activity", "name">>, <<"service", "name">>}

InitAxml ==
    /\ root \in Manifests
    /\ query = [op |-> "none", tag |-> "", name |-> ""]
    /\ query_result = None
    /\ packages = <<>> /\ grv_stack = <<>> /\ grv_state = "idle" /\ grv_result = None
    /\ eocd_input = <<>> /\ chunk_size = 0 /\ eocd_end = 0
    /\ eocd_state = "done" /\ eocd_result = None
    /\ zip_raw = <<>> /\ zip_state = "failed" /\ central_directory = <<>>
    /\ local_headers = <<>> /\ read_name = "" /\ read_sizes = <<>>
    /\ read_result = <<>>
    /\ parse_input = <<>> /\ cursor = 0 /\ pstate = "idle" /\ result = None

\* A caller asks get_attribute_value(tag, name)
GetAttributeValue(tag, name) ==
    /\ query' = [op |-> "attr", tag |-> tag, name |-> name]
    /\ query_result' = get_attribute_value(root, tag, name)
    /\ UNCHANGED <<root, arscVars, eocdVars, zipVars, parseVars>>

\* A caller collects get_main_activities()
GetMainActivities ==
    /\ query' = [op |-> "main", tag |-> "", name |-> ""]
    /\ query_result' = get_main_activities(root)
    /\ UNCHANGED <<root, arscVars, eocdVars, zipVars, parseVars>>

NextAxml ==
    \/ \E q \in AttrQueries : GetAttributeValue(q[1], q[2])
    \/ GetMainActivities

SpecAxml == InitAxml /\ [][NextAxml]_vars

\* The elements below e in document order.
RECURSIVE Descendants(_)
RECURSIVE DescendantsOfAll(_)
Descendants(e) == DescendantsOfAll(e.children)
DescendantsOfAll(elems) ==
    IF elems = <<>> THEN <<>>
    ELSE <<Head(elems)>> \o Descendants(Head(elems)) \o DescendantsOfAll(Tail(elems))

\* C9 (as claimed): get_attribute_value(tag, name) returns the attribute of
\* the root when the root is named tag, and otherwise the attribute of the
\* first element named tag among all descendants of the root, at any depth.
C9_FirstDescendant ==
    query.op = "attr" =>
        query_result =
            (IF root.name = query.tag THEN Attr(root, query.name)
             ELSE LET d == Descendants(root)
                      hits == {i \in DOMAIN d : d[i].name = query.tag}
                  IN IF hits = {} THEN None
                     ELSE Attr(d[CHOOSE i \in hits : \A j \in hits : i <= j], query.name))

\* Does component c qualify as a main activity under the claim's conditions?
IsMainComponent(c) ==
    /\ c.name \in {"activity", "activity-alias"}
    /\ Attr(c, "enabled") # Some("false")
    /\ \E i \in DOMAIN c.children :
          /\ c.children[i].name = "intent-filter"
          /\ \E a \in DOMAIN c.children[i].children :
                /\ c.children[i].children[a].name = "action"
                /\ Attr(c.children[i].children[a], "name") = Some(ActionMain)
          /\ \E k \in DOMAIN c.children[i].children :
                /\ c.children[i].children[k].name = "category"
                /\ Attr(c.children[i].children[k], "name")
                      \in {Some(CategoryLauncher), Some(CategoryInfo)}

\* The components of the manifest: the children of its application elements.
Components ==
    UNION {{root.children[i].children[j] : j \in DOMAIN root.children[i].children} :
           i \in {x \in DOMAIN root.children : root.children[x].name = "application"}}

MaxNodes == 3

TypeNull == 0
TypeTable == 2
TypeXml == 3
TypeXmlStartElement == 258
AxmlMinLen == 8
AxmlHeaderSize == 8
ArscMinLen == 12
PackageIdMask == 255

\* A constructor that goes on to the header whatever the length.
NoLengthCheck(len, min) == FALSE
\* input.len() < 8, input.len() < 12
TooSmall(len, min) == len < min

\* A tamper test that only fires on chunk types outside the ResourceType table.
IsTamperedUnknownOnly(type_) == type_ \notin {TypeNull, TypeTable, TypeXml, TypeXmlStartElement}
\* header.type_ != ResourceType::Xml
IsTampered(type_) == type_ # TypeXml

\* The string pool and resource map of the generated AXML inputs: index 3 is
\* an empty string whose resource id names the system attribute "icon",
\* index 4 is a garbage name, index 5 is past the end of the pool.
AxmlPool == <<"manifest", "application", "label", "", "bad name">>
AxmlResourceNames == <<None, None, None, Some("icon")>>
ContainsWhitespace(str) == str = "bad name"
AndroidNamespace == "http://schemas.android.com/apk/res/android"

\* XmlNodeElements
XmlStartElement(name, attributes) ==
    [node |-> "XmlStartElement", name |-> name, attributes |-> attributes]
XmlEndElement == [node |-> "XmlEndElement", name |-> 0, attributes |-> <<>>]
XmlStartNamespace == [node |-> "XmlStartNamespace", name |-> 0, attributes |-> <<>>]
XmlAttribute(name, value) == [name |-> name, value |-> value]

\* AXML::get_string_from_pool
get_string_from_pool(idx, string_pool, resource_names) ==
    IF PoolGet(string_pool, idx).some /\ PoolGet(string_pool, idx).val # ""
    THEN PoolGet(string_pool, idx)
    ELSE IF idx + 1 \in DOMAIN resource_names THEN resource_names[idx + 1] ELSE None

\* The `for attribute in &node.attributes` loop of get_xml_tree
RECURSIVE BuildAttrs(_, _, _, _)
BuildAttrs(attrs, attributes, string_pool, resource_names) ==
    IF attributes = <<>> THEN attrs
    ELSE LET n == get_string_from_pool(Head(attributes).name, string_pool, resource_names)
         IN BuildAttrs(
                IF ~n.some \/ ContainsWhitespace(n.val) THEN attrs
                ELSE (n.val :> Head(attributes).value) @@ attrs,
                Tail(attributes), string_pool, resource_names)

\* Element::append_child on the last element of the stack
AppendChild(stack, finished) ==
    [stack EXCEPT ![Len(stack)] =
        Element(@.name, @.attrs, Append(@.children, finished))]

\* The `for node in elements` loop of get_xml_tree
RECURSIVE BuildStack(_, _, _, _)
BuildStack(stack, elements, string_pool, resource_names) ==
    IF elements = <<>> THEN stack
    ELSE LET node == Head(elements)
             name == PoolGet(string_pool, node.name)
             next ==
               CASE node.node = "XmlStartElement" /\ name.some ->
                       Append(stack,
                              Element(name.val,
                                      BuildAttrs(IF name.val = "manifest"
                                                 THEN "xmlns:android" :> AndroidNamespace
                                                 ELSE NoAttrs,
                                                 node.attributes, string_pool, resource_names),
                                      <<>>))
                 [] node.node = "XmlEndElement" /\ Len(stack) > 1 ->
                       AppendChild(SubSeq(stack, 1, Len(stack) - 1), stack[Len(stack)])
                 [] OTHER -> stack
         IN BuildStack(next, Tail(elements), string_pool, resource_names)

\* AXML::get_xml_tree
get_xml_tree(elements, string_pool, resource_names) ==
    LET stack == BuildStack(<<>>, elements, string_pool, resource_names)
    IN IF stack # <<>> THEN Some(stack[1]) ELSE None

AxmlErr(e) == [ok |-> FALSE, err |-> e, is_tampered |-> FALSE, root |-> None]
AxmlOk(t, r) == [ok |-> TRUE, err |-> "", is_tampered |-> t, root |-> r]

\* AXML::new
AxmlNew(inp) ==
    IF TooSmall(inp.len, AxmlMinLen) THEN AxmlErr("TooSmallError")
    ELSE IF inp.len < 8 THEN AxmlErr("HeaderError")
    ELSE IF inp.header_size # AxmlHeaderSize THEN AxmlErr("HeaderSizeError")
    ELSE IF ~inp.string_pool.some THEN AxmlErr("StringPoolError")
    ELSE IF ~inp.resource_map.some THEN AxmlErr("ResourceMapError")
    ELSE IF ~inp.elements.some THEN AxmlErr("XmlTreeError")
    ELSE LET r == get_xml_tree(inp.elements.val, inp.string_pool.val, inp.resource_map.val)
         IN IF ~r.some THEN AxmlErr("MissingRoot")
            ELSE AxmlOk(IsTampered(inp.type_), r)

ArscErr(e) == [ok |-> FALSE, err |-> e, is_tampered |-> FALSE, packages |-> <<>>]

\* The packages map of ARSC::new: the first package of an id is kept
RECURSIVE PackageIds(_, _)
PackageIds(kept, ids) ==
    IF ids = <<>> THEN kept
    ELSE LET id == Head(ids) % (PackageIdMask + 1)
         IN PackageIds(IF \E i \in DOMAIN kept : kept[i] = id THEN kept ELSE Append(kept, id),
                       Tail(ids))

\* ARSC::new
ArscNew(inp) ==
    IF TooSmall(inp.len, ArscMinLen) THEN ArscErr("TooSmallError")
    ELSE IF inp.len < 12 THEN ArscErr("HeaderError")
    ELSE IF ~inp.string_pool.some THEN ArscErr("StringPoolError")
    ELSE IF Len(inp.package_ids) < inp.package_count THEN ArscErr("ResourceTableError")
    ELSE [ok |-> TRUE, err |-> "", is_tampered |-> inp.type_ # TypeTable,
          packages |-> PackageIds(<<>>, SubSeq(inp.package_ids, 1, inp.package_count))]

\* The inputs tried.
AxmlInput(len, type_, header_size, string_pool, resource_map, elements) ==
    [kind |-> "axml", len |-> len, type_ |-> type_, header_size |-> header_size,
     string_pool |-> string_pool, resource_map |-> resource_map, elements |-> elements]
ArscInput(len, type_, package_count, string_pool, package_ids) ==
    [kind |-> "arsc", len |-> len, type_ |-> type_, package_count |-> package_count,
     string_pool |-> string_pool, package_ids |-> package_ids]

NodeAlphabet ==
    {XmlStartElement(0, <<>>), XmlStartElement(5, <<>>), XmlEndElement, XmlStartNamespace}
        \cup {XmlStartElement(1, <<XmlAttribute(n, "v")>>) : n \in 2..5}

HeaderTypes == {TypeXml, TypeNull, TypeTable, TypeXmlStartElement}

\* Documents nested two deep: an element whose name index is past the end of
\* the pool, with its end, stands before a second child of <application>,
\* or before a second child of <manifest>, or is left out
NestedDocuments ==
    LET skipped == <<XmlStartElement(5, <<>>), XmlEndElement>>
        child == <<XmlStartElement(1, <<XmlAttribute(2, "v")>>), XmlEndElement>>
    IN {<<XmlStartElement(0, <<>>), XmlStartElement(1, <<>>)>> \o inner \o child
            \o <<XmlEndElement>> \o outer \o <<XmlEndElement>> :
          inner \in {<<>>, skipped}, outer \in {<<>>, skipped}}

AxmlInputs ==
    {AxmlInput(len, TypeXml, AxmlHeaderSize, None, None, None) : len \in {0, 4}}
    \cup {AxmlInput(64, TypeXml, AxmlHeaderSize, Some(AxmlPool), Some(AxmlResourceNames),
                    Some(e)) : e \in NestedDocuments}
    \cup {AxmlInput(64, t, hs, Some(AxmlPool), Some(AxmlResourceNames), Some(e)) :
            t \in HeaderTypes, hs \in {AxmlHeaderSize, 16},
            e \in UNION {[1..n -> NodeAlphabet] : n \in 0..MaxNodes}}
    \cup {AxmlInput(64, t, AxmlHeaderSize, None, None, None) : t \in HeaderTypes}
    \cup {AxmlInput(64, t, AxmlHeaderSize, Some(AxmlPool), None, None) : t \in HeaderTypes}
    \cup {AxmlInput(64, t, AxmlHeaderSize, Some(AxmlPool), Some(AxmlResourceNames), None) :
            t \in HeaderTypes}

ArscInputs ==
    {ArscInput(len, TypeTable, 0, None, <<>>) : len \in {0, 8}}
    \cup {ArscInput(64, t, n, sp, ids) :
            t \in {TypeTable, TypeNull}, n \in 0..2, sp \in {None, Some(<<"Example">>)},
            ids \in {<<>>, <<127>>, <<127, 383>>, <<1, 127>>}}

InitOpen ==
    /\ parse_input \in AxmlInputs \cup ArscInputs
    /\ cursor = 0
    /\ pstate = "ready"
    /\ result = None
    /\ zip_raw \in BrokenFamily
    /\ zip_state = "raw"
    /\ central_directory = <<>>
    /\ local_headers = <<>>
    /\ read_name = ""
    /\ read_sizes = NoSizes
    /\ read_result = ReadErr("")
    /\ packages = <<>> /\ grv_stack = <<>> /\ grv_state = "idle" /\ grv_result = None
    /\ eocd_input = <<>> /\ chunk_size = 0 /\ eocd_end = 0
    /\ eocd_state = "done" /\ eocd_result = None
    /\ root = <<>> /\ query = <<>> /\ query_result = None

\* A caller opens the input with AXML::new
OpenAxml ==
    /\ pstate = "ready" /\ parse_input.kind = "axml"
    /\ result' = AxmlNew(parse_input)
    /\ pstate' = "done"
    /\ UNCHANGED <<parse_input, cursor, arscVars, eocdVars, zipVars, axmlVars>>

\* A caller opens the input with ARSC::new
OpenArsc ==
    /\ pstate = "ready" /\ parse_input.kind = "arsc"
    /\ result' = ArscNew(parse_input)
    /\ pstate' = "done"
    /\ UNCHANGED <<parse_input, cursor, arscVars, eocdVars, zipVars, axmlVars>>

NextOpen ==
    \/ OpenAxml
    \/ OpenArsc
    \/ ZipNew

SpecOpen == InitOpen /\ [][NextOpen]_vars

\* C11: for an AXML input whose outer header_size is 8, a successful
\* AXML::new has is_tampered set exactly when the outer chunk type is not
\* 0x0003, and the outcome and the decoded tree are those of the same input
\* with the type set to 0x0003.
C11_TamperedTypeSameTree ==
    (pstate = "done" /\ parse_input.kind = "axml"
        /\ parse_input.len >= AxmlMinLen /\ parse_input.header_size = 8) =>
        LET clean == AxmlNew([parse_input EXCEPT !.type_ = 3])
        IN /\ result.ok => (result.is_tampered <=> parse_input.type_ # 3)
           /\ result.ok = clean.ok
           /\ result.err = clean.err
           /\ result.root = clean.root

\* C11 witness: an input of type 0 opened as tampered, with a decoded
\* manifest that has a child element carrying an attribute.
C11_Witness ==
    /\ pstate = "done" /\ parse_input.kind = "axml"
    /\ parse_input.header_size = 8 /\ parse_input.type_ = 0
    /\ result.ok /\ result.is_tampered
    /\ result.root.val.name = "manifest"
    /\ Len(result.root.val.children) = 1
    /\ Attr(result.root.val.children[1], "label") = Some("v")

\* C18 (as claimed): a zero-length input gives the input-too-small error of
\* each constructor: TooSmallError for AXML and ARSC, the missing-EOCD error
\* for ZIP.
C18_ZeroLengthTooSmall ==
    /\ (pstate = "done" /\ parse_input.len = 0) =>
          (~result.ok /\ result.err = "TooSmallError")
    /\ (zip_state # "raw" /\ zip_raw.len = 0) => zip_state = "NotFoundEOCD"

\* C18 (amended): a zero-length input is refused by every constructor, with
\* TooSmallError by AXML::new and ARSC::new and with InvalidHeader by
\* ZipEntry::new, whose magic test comes before the EOCD search.
C18_ZeroLengthRefused ==
    /\ (pstate = "done" /\ parse_input.len = 0) =>
          (~result.ok /\ result.err = "TooSmallError")
    /\ (zip_state # "raw" /\ zip_raw.len = 0) => zip_state = "InvalidHeader"

\* C18 witness: a zero-length AXML input refused as too small next to a
\* zero-length archive refused for its header.
C18_Witness ==
    /\ pstate = "done" /\ parse_input.kind = "axml" /\ parse_input.len = 0
    /\ result.err = "TooSmallError"
    /\ zip_raw.len = 0 /\ zip_state = "InvalidHeader"

(***************************************************************************)
(* StringPool: parse, parse_strings, parse_string, read_utf16, get         *)
(***************************************************************************)

\* The most code units (UTF-16) or bytes (UTF-8) in a generated string.
MaxUnits == 3

PoolHeaderSize == 28
OffsetSize == 4
Utf16LongFlag == 32768
Utf8LongFlag == 128
ReplacementChar == 65533

\* A fixup length that forgets the second unit.
Utf16FixupLenFirstOnly(u16len, u16len_fix) == u16len % Utf16LongFlag
\* ((u16len & 0x7FFF) as u32) << 16 | u16len_fix as u32
Utf16FixupLen(u16len, u16len_fix) == (u16len % Utf16LongFlag) * 65536 + u16len_fix

le_u16(b, i) == b[i] + 256 * b[i + 1]
IsHighSurrogate(u) == u >= 55296 /\ u <= 56319
IsLowSurrogate(u) == u >= 56320 /\ u <= 57343

\* std::char::decode_utf16: one Ok(code point) or Err per item
RECURSIVE decode_utf16(_)
decode_utf16(units) ==
    IF units = <<>> THEN <<>>
    ELSE LET u == Head(units)
         IN IF ~IsHighSurrogate(u) /\ ~IsLowSurrogate(u)
            THEN <<Some(u)>> \o decode_utf16(Tail(units))
            ELSE IF IsHighSurrogate(u) /\ Len(units) >= 2 /\ IsLowSurrogate(units[2])
            THEN <<Some(65536 + (u - 55296) * 1024 + (units[2] - 56320))>>
                    \o decode_utf16(Tail(Tail(units)))
            ELSE <<None>> \o decode_utf16(Tail(units))

\* A decode that puts U+FFFD in the place of every unit that does not decode.
read_utf16_lossy(units) ==
    LET d == decode_utf16(units)
    IN [i \in DOMAIN d |-> IF d[i].some THEN d[i].val ELSE ReplacementChar]

\* StringPool::read_utf16: collect::<Result<String, _>>().unwrap_or_default()
read_utf16(units) ==
    LET d == decode_utf16(units)
    IN IF \E i \in DOMAIN d : ~d[i].some THEN <<>>
       ELSE [i \in DOMAIN d |-> d[i].val]

\* String::from_utf8_lossy over bytes below 0xE0: ASCII, two-byte sequences,
\* and U+FFFD for a byte that starts or continues nothing
RECURSIVE from_utf8_lossy_bytes(_)
from_utf8_lossy_bytes(bytes) ==
    IF bytes = <<>> THEN <<>>
    ELSE LET b == Head(bytes)
         IN IF b < 128 THEN <<b>> \o from_utf8_lossy_bytes(Tail(bytes))
            ELSE IF b >= 194 /\ b < 224 /\ Len(bytes) >= 2
                    /\ bytes[2] >= 128 /\ bytes[2] < 192
            THEN <<(b % 32) * 64 + (bytes[2] % 64)>>
                    \o from_utf8_lossy_bytes(Tail(Tail(bytes)))
            ELSE <<ReplacementChar>> \o from_utf8_lossy_bytes(Tail(bytes))

NoString == [ok |-> FALSE, real_len |-> 0, content_start |-> 0, content |-> <<>>,
             string |-> <<>>]
ParsedString(real_len, content_start, content, string) ==
    [ok |-> TRUE, real_len |-> real_len, content_start |-> content_start,
     content |-> content, string |-> string]

\* StringPool::parse_string over the bytes b; content_start counts the bytes
\* consumed before the content, content is what take() returned
parse_string(b, is_utf8) ==
    IF ~is_utf8
    THEN IF Len(b) < 2 THEN NoString
         ELSE LET u16len == le_u16(b, 1)
                  fixup == u16len >= Utf16LongFlag
              IN IF fixup /\ Len(b) < 4 THEN NoString
                 ELSE LET real_len == IF fixup
                                      THEN Utf16FixupLen(u16len, le_u16(b, 3))
                                      ELSE u16len
                          start == IF fixup THEN 4 ELSE 2
                      IN IF start + real_len * 2 + 2 > Len(b) THEN NoString
                         ELSE LET units == [i \in 1..real_len |-> le_u16(b, start + 2 * i - 1)]
                              IN ParsedString(real_len, start, units, read_utf16(units))
    ELSE IF Len(b) < 2 THEN NoString
         ELSE LET length1 == b[1]
                  length2 == b[2]
                  long == length1 >= Utf8LongFlag
              IN IF long /\ Len(b) < 4 THEN NoString
                 ELSE LET real_length == IF long THEN (length1 % Utf8LongFlag) * 256 + length2
                                         ELSE length1
                          start == IF long THEN 4 ELSE 2
                      IN IF start + real_length + 1 > Len(b) THEN NoString
                         ELSE LET bytes == SubSeq(b, start + 1, start + real_length)
                              IN ParsedString(real_length, start, bytes,
                                              from_utf8_lossy_bytes(bytes))

PoolErr(e) == [ok |-> FALSE, err |-> e, string_count |-> 0, invalid_string_count |-> FALSE,
               parsed |-> <<>>, strings |-> <<>>, got |-> None]

\* StringPool::parse_strings: the strings pushed, one per offset that parses
RECURSIVE PushStrings(_)
PushStrings(parsed) ==
    IF parsed = <<>> THEN <<>>
    ELSE (IF Head(parsed).ok THEN <<Head(parsed).string>> ELSE <<>>)
            \o PushStrings(Tail(parsed))

\* StringPool::parse with parse_strings. overflow_checks tells whether the
\* build panics on integer overflow (debug) or wraps (release); a wrapped
\* count or size is larger than any input, so the parse ends in an error.
StringPoolParse(inp, overflow_checks) ==
    IF inp.strings_start < inp.style_count * OffsetSize + PoolHeaderSize
    THEN PoolErr(IF overflow_checks THEN "panic" ELSE "parse")
    ELSE LET calculated == (inp.strings_start - (inp.style_count * OffsetSize + PoolHeaderSize))
                              \div OffsetSize
             string_count == calculated
             invalid == calculated # inp.string_count
         IN IF Len(inp.offsets) < string_count + inp.style_count THEN PoolErr("parse")
            ELSE IF inp.size < inp.strings_start
            THEN PoolErr(IF overflow_checks THEN "panic" ELSE "parse")
            ELSE LET string_pool_size == inp.size - inp.strings_start
                     string_offsets == SubSeq(inp.offsets, 1, string_count)
                 IN IF string_pool_size > Len(inp.data) THEN PoolErr("parse")
                    ELSE LET slice == SubSeq(inp.data, 1, string_pool_size)
                         IN IF \E i \in DOMAIN string_offsets : string_offsets[i] > Len(slice)
                            THEN PoolErr("panic")
                            ELSE LET parsed ==
                                        [i \in DOMAIN string_offsets |->
                                            parse_string(SubSeq(slice, string_offsets[i] + 1,
                                                                Len(slice)),
                                                         inp.is_utf8)]
                                 IN [ok |-> TRUE, err |-> "", string_count |-> string_count,
                                     invalid_string_count |-> invalid,
                                     parsed |-> parsed, strings |-> PushStrings(parsed),
                                     got |-> None]

\* The pools tried. A string is written with a short or a long length
\* prefix, a content over a small alphabet (a letter, a high and a low
\* surrogate; or a letter and the two bytes of U+00E9), a declared length
\* that is the content's or one more, and its terminator.
Utf16Alphabet == {65, 55357, 56832}
Utf8Alphabet == {65, 195, 169}
U16Bytes(x) == <<x % 256, x \div 256>>
RECURSIVE UnitsBytes(_)
UnitsBytes(units) ==
    IF units = <<>> THEN <<>> ELSE U16Bytes(Head(units)) \o UnitsBytes(Tail(units))

EncodeUtf16(long, content, extra) ==
    (IF long THEN U16Bytes(Utf16LongFlag) \o U16Bytes(Len(content) + extra)
     ELSE U16Bytes(Len(content) + extra))
        \o UnitsBytes(content) \o <<0, 0>>

EncodeUtf8(long, content, extra) ==
    LET chars == Len(from_utf8_lossy_bytes(content)) + extra
        bytes == Len(content) + extra
    IN (IF long THEN <<Utf8LongFlag, chars, Utf8LongFlag, bytes>> ELSE <<chars, bytes>>)
          \o content \o <<0>>

EncodedStrings(is_utf8) ==
    {IF is_utf8 THEN EncodeUtf8(long, c, extra) ELSE EncodeUtf16(long, c, extra) :
        long \in BOOLEAN, extra \in 0..1,
        c \in UNION {[1..n -> IF is_utf8 THEN Utf8Alphabet ELSE Utf16Alphabet] :
                        n \in 0..MaxUnits}}

PlainString(is_utf8) ==
    IF is_utf8 THEN EncodeUtf8(FALSE, <<66>>, 0) ELSE EncodeUtf16(FALSE, <<66>>, 0)

PoolInput(is_utf8, string_count, strings_start, size, offsets, data) ==
    [is_utf8 |-> is_utf8, string_count |-> string_count, style_count |-> 0,
     strings_start |-> strings_start, size |-> size, offsets |-> offsets, data |-> data]

\* k strings laid out one after the other, the header declaring n of them
PoolOf(is_utf8, n, strs) ==
    LET k == Len(strs)
        data == IF k = 1 THEN strs[1] ELSE strs[1] \o strs[2]
        offsets == IF k = 1 THEN <<0>> ELSE <<0, Len(strs[1])>>
        start == PoolHeaderSize + OffsetSize * k
    IN PoolInput(is_utf8, n, start, start + Len(data), offsets, data)

PoolLayouts(is_utf8) ==
    UNION {{<<e>>, <<e, PlainString(is_utf8)>>, <<PlainString(is_utf8), e>>} :
              e \in EncodedStrings(is_utf8)}

PoolInputs ==
    UNION {{PoolOf(is_utf8, Len(strs) + more, strs) :
              strs \in PoolLayouts(is_utf8), more \in 0..1} :
           is_utf8 \in BOOLEAN}

BrokenPoolInputs ==
    {PoolInput(FALSE, 1, PoolHeaderSize - OffsetSize, 64, <<0>>, PlainString(FALSE)),
     PoolInput(FALSE, 1, PoolHeaderSize + OffsetSize, PoolHeaderSize, <<0>>, PlainString(FALSE)),
     PoolInput(FALSE, 1, PoolHeaderSize + OffsetSize, PoolHeaderSize + OffsetSize + 64,
               <<0>>, PlainString(FALSE)),
     PoolInput(FALSE, 1, PoolHeaderSize + OffsetSize, PoolHeaderSize + OffsetSize + 6,
               <<9>>, PlainString(FALSE)),
     PoolInput(FALSE, 2, PoolHeaderSize + 2 * OffsetSize, PoolHeaderSize + 2 * OffsetSize + 6,
               <<0>>, PlainString(FALSE)),
     PoolInput(TRUE, 2, PoolHeaderSize + 2 * OffsetSize, PoolHeaderSize + 2 * OffsetSize + 7,
               <<0, 3>>, <<5, 5, 0>> \o PlainString(TRUE))}

GetIndexes == 0..3

InitPool ==
    /\ parse_input \in PoolInputs \cup BrokenPoolInputs
    /\ cursor = 0
    /\ pstate = "ready"
    /\ result = None
    /\ packages = <<>> /\ grv_stack = <<>> /\ grv_state = "idle" /\ grv_result = None
    /\ eocd_input = <<>> /\ chunk_size = 0 /\ eocd_end = 0
    /\ eocd_state = "done" /\ eocd_result = None
    /\ zip_raw = <<>> /\ zip_state = "failed" /\ central_directory = <<>>
    /\ local_headers = <<>> /\ read_name = "" /\ read_sizes = <<>>
    /\ read_result = <<>>
    /\ root = <<>> /\ query = <<>> /\ query_result = None

\* StringPool::parse
ParsePool ==
    /\ pstate = "ready"
    /\ \E overflow_checks \in BOOLEAN :
          result' = StringPoolParse(parse_input, overflow_checks)
    /\ pstate' = "done"
    /\ UNCHANGED <<parse_input, cursor, arscVars, eocdVars, zipVars, axmlVars>>

\* StringPool::get(idx)
GetString(idx) ==
    /\ pstate \in {"done", "got"} /\ result.ok
    /\ cursor' = idx
    /\ result' = [result EXCEPT !.got = PoolGet(result.strings, idx)]
    /\ pstate' = "got"
    /\ UNCHANGED <<parse_input, arscVars, eocdVars, zipVars, axmlVars>>

NextPool ==
    \/ ParsePool
    \/ \E idx \in GetIndexes : GetString(idx)

SpecPool == InitPool /\ [][NextPool]_vars

\* C12 (as claimed): after a successful parse of a pool whose header gives
\* string_count = n, get(i) is a string for every i < n and None for every
\* i >= n, and a get returns what the pool holds at that index. Stated for
\* the pools whose header count is the one parse works with.
C12_GetTotalBelowCount ==
    (pstate \in {"done", "got"} /\ result.ok /\ ~result.invalid_string_count) =>
        /\ \A i \in GetIndexes :
              PoolGet(result.strings, i).some <=> i < parse_input.string_count
        /\ pstate = "got" => result.got = PoolGet(result.strings, cursor)

\* C13 (as claimed): a UTF-16 string decodes with every surrogate pair
\* combined and U+FFFD in the place of an unpaired surrogate, every other
\* character kept.
C13_SurrogatesReplaced ==
    (pstate = "done" /\ result.ok /\ ~parse_input.is_utf8) =>
        \A i \in DOMAIN result.parsed :
            result.parsed[i].ok =>
                result.parsed[i].string = read_utf16_lossy(result.parsed[i].content)

\* The bytes parse_string was given for the i-th offset.
StringBytes(i) ==
    SubSeq(parse_input.data, parse_input.offsets[i] + 1,
           parse_input.size - parse_input.strings_start)

\* C14 (as claimed): the length is one u16 or, with the high bit set,
\* ((first & 0x7FFF) << 16) | second; in a UTF-8 pool one u8 or, with the
\* high bit set, two u8s; the content read is exactly that many code units
\* right after the prefix.
C14_LengthPrefixAsClaimed ==
    (pstate = "done" /\ result.ok) =>
        \A i \in DOMAIN result.parsed :
            LET b == StringBytes(i)
                r == result.parsed[i]
            IN r.ok =>
                /\ Len(r.content) = r.real_len
                /\ IF ~parse_input.is_utf8
                   THEN IF le_u16(b, 1) < 32768
                        THEN r.real_len = le_u16(b, 1) /\ r.content_start = 2
                        ELSE /\ r.real_len = (le_u16(b, 1) - 32768) * 65536 + le_u16(b, 3)
                             /\ r.content_start = 4
                   ELSE IF b[1] < 128
                        THEN r.real_len = b[1] /\ r.content_start = 1
                        ELSE /\ r.real_len = (b[1] - 128) * 256 + b[2]
                             /\ r.content_start = 2

\* C14 (amended): as claimed for UTF-16; in a UTF-8 pool two u8s are always
\* read, the length is the first or, with its high bit set,
\* ((first & 0x7F) << 8) | second with two more bytes skipped; the content
\* read is exactly that many code units after the bytes consumed.
C14_LengthPrefix ==
    (pstate = "done" /\ result.ok) =>
        \A i \in DOMAIN result.parsed :
            LET b == StringBytes(i)
                r == result.parsed[i]
            IN r.ok =>
                /\ Len(r.content) = r.real_len
                /\ IF ~parse_input.is_utf8
                   THEN IF le_u16(b, 1) < 32768
                        THEN r.real_len = le_u16(b, 1) /\ r.content_start = 2
                        ELSE /\ r.real_len = (le_u16(b, 1) - 32768) * 65536 + le_u16(b, 3)
                             /\ r.content_start = 4
                   ELSE IF b[1] < 128
                        THEN r.real_len = b[1] /\ r.content_start = 2
                        ELSE /\ r.real_len = (b[1] - 128) * 256 + b[2]
                             /\ r.content_start = 4

\* C14 witness: a UTF-16 string with the two-unit prefix and a UTF-8 string
\* with the long prefix were read, each with two code units of content.
C14_Witness ==
    /\ pstate = "done" /\ result.ok
    /\ \E i \in DOMAIN result.parsed :
          /\ result.parsed[i].ok
          /\ result.parsed[i].content_start = 4
          /\ result.parsed[i].real_len = 2
          /\ result.parsed[i].string # <<>>

(***************************************************************************)
(* Signatures: get_signature_v1, get_signatures_other, Apk::get_signatures *)
(***************************************************************************)

\* The input is held as 32-bit little-endian words; every length and offset
\* of the inputs tried is a multiple of 4. Block ids above 0x7fffffff are
\* written as the signed value of the same 32 bits.

\* The most ID/value pairs in a generated signing block.
MaxPairs == 2

APK_SIGNATURE_MAGIC == <<541806657, 543648083, 1668246594, 842276971>>
SIGNATURE_SCHEME_V2_BLOCK_ID == 1896449818
SIGNATURE_SCHEME_V3_BLOCK_ID == -262969152
SIGNATURE_SCHEME_V31_BLOCK_ID == 462663009
V1_SOURCE_STAMP_BLOCK_ID == 722016414
V2_SOURCE_STAMP_BLOCK_ID == 1845461005
VERITY_PADDING_BLOCK_ID == 1114793335
DEPENDENCY_INFO_BLOCK_ID == 1347109971
APK_CHANNEL_BLOCK_ID == 1903654775
GOOGLE_PLAY_FROSTING_ID == 558253134
ZERO_BLOCK_ID == -12887656
FooterSize == 24
SizeFieldSize == 8
WordSize == 4
\* the first word of a DER certificate the X509 parser accepts
DerSequence == 33328
\* A u64 whose high word h is not zero is held as HugeU64 + h: it is larger
\* than every offset, and two of them are equal when their high words are
HugeU64 == 1073741824

\* le_u64 / le_u32 at word index p (0-based) of the word sequence w
U64At(w, p) == IF w[p + 2] = 0 THEN w[p + 1] ELSE HugeU64 + w[p + 2]
U32At(w, p) == w[p + 1]
WordsIn(bytes) == bytes \div WordSize

NoSig == [ok |-> FALSE, panic |-> FALSE, pos |-> 0, sig |-> "", certs |-> 0]
SigPanic == [ok |-> FALSE, panic |-> TRUE, pos |-> 0, sig |-> "", certs |-> 0]
SigAt(pos, sig, certs) == [ok |-> TRUE, panic |-> FALSE, pos |-> pos, sig |-> sig, certs |-> certs]

\* parse_certificates: a length, that many bytes, X509::from_der(..).unwrap()
ParseCertificate(w, p) ==
    IF p + 1 > Len(w) \/ p + 1 + WordsIn(U32At(w, p)) > Len(w) THEN NoSig
    ELSE IF U32At(w, p) = 0 \/ U32At(w, p + 1) # DerSequence THEN SigPanic
    ELSE SigAt(p + 1 + WordsIn(U32At(w, p)), "", 1)

\* repeat(0.., parse_certificates) over the certificate bytes
RECURSIVE RepeatCertificates(_, _, _)
RepeatCertificates(w, p, n) ==
    LET c == ParseCertificate(w, p)
    IN IF c.panic THEN SigPanic
       ELSE IF ~c.ok THEN SigAt(p, "", n)
       ELSE RepeatCertificates(w, c.pos, n + 1)

\* The fields after the id, per block: "u32" is a le_u32 that is dropped,
\* "block" a length with that many bytes, "certs" a length with the
\* certificates inside, "cert" one parse_certificates
V2Fields == <<"u32", "u32", "u32", "block", "certs", "block", "u32", "block", "block">>
V3Fields == <<"u32", "u32", "u32", "block", "certs", "u32", "u32", "block",
              "u32", "u32", "block", "block">>
StampV1Fields == <<"u32", "cert", "block">>
StampV2Fields == <<"u32", "cert", "block", "block", "block">>

\* The parsers of one block, field after field; n counts the certificates
RECURSIVE ParseFields(_, _, _, _)
ParseFields(w, p, fields, n) ==
    IF fields = <<>> THEN SigAt(p, "", n)
    ELSE IF p + 1 > Len(w) THEN NoSig
    ELSE LET rest == Tail(fields)
             after == p + 1 + WordsIn(U32At(w, p))
         IN CASE Head(fields) = "u32" -> ParseFields(w, p + 1, rest, n)
              [] Head(fields) = "block" ->
                    IF after > Len(w) THEN NoSig ELSE ParseFields(w, after, rest, n)
              [] Head(fields) = "certs" ->
                    IF after > Len(w) THEN NoSig
                    ELSE LET c == RepeatCertificates(SubSeq(w, p + 2, after), 0, 0)
                         IN IF c.panic THEN SigPanic ELSE ParseFields(w, after, rest, c.certs)
              [] OTHER ->
                    LET c == ParseCertificate(w, p)
                    IN IF c.panic THEN SigPanic
                       ELSE IF ~c.ok THEN NoSig
                       ELSE ParseFields(w, c.pos, rest, 1)

\* take(size.saturating_sub(4)) after the id
TakeValue(w, p, size, sig) ==
    LET n == IF size >= WordSize THEN size - WordSize ELSE 0
    IN IF p + WordsIn(n) > Len(w) THEN NoSig ELSE SigAt(p + WordsIn(n), sig, 0)

\* ZipEntry::parse_apk_signatures: one ID/value pair at word index p
parse_apk_signatures(w, p) ==
    IF p + 3 > Len(w) THEN NoSig
    ELSE LET size == U64At(w, p)
             id == U32At(w, p + 2)
             named(fields, sig) ==
                LET r == ParseFields(w, p + 3, fields, 0)
                IN IF r.ok THEN SigAt(r.pos, sig, r.certs) ELSE r
         IN CASE id = SIGNATURE_SCHEME_V2_BLOCK_ID -> named(V2Fields, "V2")
              [] id = SIGNATURE_SCHEME_V3_BLOCK_ID -> named(V3Fields, "V3")
              [] id = SIGNATURE_SCHEME_V31_BLOCK_ID -> named(V3Fields, "V31")
              [] id = APK_CHANNEL_BLOCK_ID -> TakeValue(w, p + 3, size, "ApkChannelBlock")
              [] id = V1_SOURCE_STAMP_BLOCK_ID -> named(StampV1Fields, "StampBlockV1")
              [] id = V2_SOURCE_STAMP_BLOCK_ID -> named(StampV2Fields, "StampBlockV2")
              [] OTHER -> TakeValue(w, p + 3, size, "Unknown")

\* repeat(0.., self.parse_apk_signatures()): the pairs up to the first one
\* that does not parse
RECURSIVE RepeatSignatures(_, _, _)
RepeatSignatures(w, p, acc) ==
    LET r == parse_apk_signatures(w, p)
    IN IF r.panic THEN [panic |-> TRUE, sigs |-> <<>>]
       ELSE IF ~r.ok THEN [panic |-> FALSE, sigs |-> acc]
       ELSE RepeatSignatures(w, r.pos, Append(acc, r.sig))

SigErr(e) == [ok |-> FALSE, err |-> e, signatures |-> <<>>]
SigOk(sigs) == [ok |-> TRUE, err |-> "", signatures |-> sigs]

\* filter(|signature| signature != &Signature::Unknown)
NotUnknown(sig) == sig # "Unknown"

\* size_of_block != size_of_block_start, negated
SizesAgree(size_of_block, size_of_block_start) == size_of_block = size_of_block_start

\* ZipEntry::get_signatures_other over the words before the central directory
get_signatures_other(w) ==
    LET offset == WordSize * Len(w)
        from == IF offset >= FooterSize THEN offset - FooterSize ELSE 0
        footer == SubSeq(w, WordsIn(from) + 1, WordsIn(offset))
    IN IF Len(footer) < 2 THEN SigErr("ParseError")
       ELSE IF Len(footer) < 6 THEN SigErr("ParseError")
       ELSE IF SubSeq(footer, 3, 6) # APK_SIGNATURE_MAGIC THEN SigOk(<<>>)
       ELSE LET size_of_block == U64At(footer, 0)
                a == IF offset >= size_of_block + SizeFieldSize
                     THEN offset - (size_of_block + SizeFieldSize) ELSE 0
                b == offset - FooterSize
            IN IF a > b THEN SigOk(<<>>)
               ELSE LET block == SubSeq(w, WordsIn(a) + 1, WordsIn(b))
                    IN IF Len(block) < 2 THEN SigErr("ParseError")
                       ELSE IF ~SizesAgree(size_of_block, U64At(block, 0))
                       THEN SigErr("InvalidFormat")
                       ELSE LET r == RepeatSignatures(block, 2, <<>>)
                            IN IF r.panic THEN SigErr("panic")
                               ELSE SigOk(SelectSeq(r.sigs, NotUnknown))

\* ZipEntry::get_signature_v1: v1_file tells what the archive holds under
\* META-INF ("none": no signature file, "ok": one that reads and parses,
\* "error": one that does not)
get_signature_v1(v1_file) ==
    CASE v1_file = "none" -> [ok |-> TRUE, sig |-> "Unknown"]
      [] v1_file = "ok" -> [ok |-> TRUE, sig |-> "V1"]
      [] OTHER -> [ok |-> FALSE, sig |-> ""]

\* Apk::get_signatures
get_signatures(inp) ==
    LET v1 == get_signature_v1(inp.v1_file)
        other == get_signatures_other(inp.words)
    IN IF ~other.ok THEN other
       ELSE SigOk((IF v1.ok THEN <<v1.sig>> ELSE <<>>) \o other.signatures)

\* The word "PK\x03\x04" every archive starts with
LocalFileHeaderMagic == 67324752

\* One ID/value pair: the u64 size of id and value, the id, the value
Pair(id, value) == <<WordSize + WordSize * Len(value), 0, id>> \o value

\* One certificate with its length; the parser accepts der = DerSequence
CertWords(der) == <<WordSize, der>>
V2Value(der) == <<0, 0, 0, 0, 2 * WordSize>> \o CertWords(der) \o <<0, 0, 0, 0>>
V3Value(der) == <<0, 0, 0, 0, 2 * WordSize>> \o CertWords(der) \o <<0, 0, 0, 0, 0, 0, 0>>
StampV1Value(der) == <<0>> \o CertWords(der) \o <<0>>
StampV2Value(der) == <<0>> \o CertWords(der) \o <<0, 0, 0>>

\* The pairs an input is built from: every id the parser knows, one it does
\* not, a certificate that is not DER, and a pair cut short
PairKinds ==
    { Pair(SIGNATURE_SCHEME_V2_BLOCK_ID, V2Value(DerSequence)),
      Pair(SIGNATURE_SCHEME_V2_BLOCK_ID, V2Value(0)),
      Pair(SIGNATURE_SCHEME_V3_BLOCK_ID, V3Value(DerSequence)),
      Pair(SIGNATURE_SCHEME_V31_BLOCK_ID, V3Value(DerSequence)),
      Pair(V1_SOURCE_STAMP_BLOCK_ID, StampV1Value(DerSequence)),
      Pair(V2_SOURCE_STAMP_BLOCK_ID, StampV2Value(DerSequence)),
      Pair(APK_CHANNEL_BLOCK_ID, <<65>>),
      Pair(VERITY_PADDING_BLOCK_ID, <<0>>),
      Pair(DEPENDENCY_INFO_BLOCK_ID, <<0>>),
      Pair(ZERO_BLOCK_ID, <<0>>),
      Pair(GOOGLE_PLAY_FROSTING_ID, <<0>>),
      Pair(1, <<0>>),
      <<4 * WordSize, 0, APK_CHANNEL_BLOCK_ID, 65>> }

RECURSIVE Flatten(_)
Flatten(ss) == IF ss = <<>> THEN <<>> ELSE Head(ss) \o Flatten(Tail(ss))

PairSeqs == UNION { [1..n -> PairKinds] : n \in 0..MaxPairs }

\* The size a well-formed block of these pairs carries at both ends
BlockSize(pairs) == WordSize * Len(pairs) + FooterSize

\* The sizes tried in the trailing field for a block whose size is right
TrailSizes(right) == {right, 0, 8, 16, 20, right + WordSize, HugeU64 + 1}
\* and in the leading field
LeadSizes(right) == {right, right + WordSize}

\* A magic with one word changed
BrokenMagic == <<541806657, 543648083, 1668246594, 842276972>>

\* The words before the central directory: a local file header stub, the
\* leading size, the pairs, the trailing size and the magic
BlockWords(pairs, lead, trail, magic) ==
    <<LocalFileHeaderMagic, 20>> \o <<lead, 0>> \o pairs \o
    (IF trail > HugeU64 THEN <<0, trail - HugeU64>> ELSE <<trail, 0>>) \o magic

BlockFramings(pairs) ==
    { BlockWords(pairs, BlockSize(pairs), trail, APK_SIGNATURE_MAGIC) :
          trail \in TrailSizes(BlockSize(pairs)) }
    \cup { BlockWords(pairs, lead, BlockSize(pairs), APK_SIGNATURE_MAGIC) :
          lead \in LeadSizes(BlockSize(pairs)) }
    \cup { BlockWords(pairs, BlockSize(pairs), BlockSize(pairs), BrokenMagic) }

\* An archive without a signing block: the central directory follows n words
NoBlockWords == <<LocalFileHeaderMagic, 20, 0, 0, 8, 8, 65, 66>>
NoBlockInputs == { SubSeq(NoBlockWords, 1, n) : n \in 0..Len(NoBlockWords) }

V1Files == {"none", "ok", "error"}

SigInputs ==
    { [words |-> w, v1_file |-> f] :
        w \in NoBlockInputs \cup UNION { BlockFramings(Flatten(ps)) : ps \in PairSeqs },
        f \in V1Files }

InitSig ==
    /\ parse_input \in SigInputs
    /\ cursor = 0
    /\ pstate = "ready"
    /\ result = None
    /\ packages = <<>> /\ grv_stack = <<>> /\ grv_state = "idle" /\ grv_result = None
    /\ eocd_input = <<>> /\ chunk_size = 0 /\ eocd_end = 0
    /\ eocd_state = "done" /\ eocd_result = None
    /\ zip_raw = <<>> /\ zip_state = "failed" /\ central_directory = <<>>
    /\ local_headers = <<>> /\ read_name = "" /\ read_sizes = <<>>
    /\ read_result = <<>>
    /\ root = <<>> /\ query = <<>> /\ query_result = None

\* ZipEntry::get_signatures_other
GetSignaturesOther ==
    /\ pstate = "ready"
    /\ result' = get_signatures_other(parse_input.words)
    /\ cursor' = WordSize * Len(parse_input.words)
    /\ pstate' = "other"
    /\ UNCHANGED <<parse_input, arscVars, eocdVars, zipVars, axmlVars>>

\* Apk::get_signatures
GetSignatures ==
    /\ pstate = "ready"
    /\ result' = get_signatures(parse_input)
    /\ cursor' = WordSize * Len(parse_input.words)
    /\ pstate' = "all"
    /\ UNCHANGED <<parse_input, arscVars, eocdVars, zipVars, axmlVars>>

NextSig ==
    \/ GetSignaturesOther
    \/ GetSignatures

SpecSig == InitSig /\ [][NextSig]_vars

\* The 16 bytes before the central directory are the magic
MagicPresent(w) ==
    Len(w) >= 4 /\ SubSeq(w, Len(w) - 3, Len(w)) = APK_SIGNATURE_MAGIC

\* The size read immediately before the magic
TrailingSize(w) == U64At(w, Len(w) - 6)

\* The block has a start: the place size + 8 bytes before the central
\* directory holds a u64 that ends before the trailing size
HasLeadingSize(w) ==
    LET from == saturating_sub(WordSize * Len(w), TrailingSize(w) + SizeFieldSize)
    IN from + SizeFieldSize <= WordSize * Len(w) - FooterSize

\* The size read at the start of the block
LeadingSize(w) ==
    U64At(w, WordsIn(saturating_sub(WordSize * Len(w), TrailingSize(w) + SizeFieldSize)))

SizesEqual(w) == HasLeadingSize(w) /\ LeadingSize(w) = TrailingSize(w)

\* C15 (as claimed): with the magic present before the central directory,
\* get_signatures_other returns signatures only if the size at the start of
\* the block equals the size before the magic, and returns the format error
\* with no signature whenever the two are not equal.
C15_MismatchIsFatal ==
    (pstate = "other" /\ MagicPresent(parse_input.words)) =>
        /\ (result.ok /\ result.signatures # <<>>) => SizesEqual(parse_input.words)
        /\ ~SizesEqual(parse_input.words) => result = SigErr("InvalidFormat")

\* C16 (as claimed): get_signatures_other is Ok with an empty list whenever
\* the 16 bytes before the central directory are not the magic, for every
\* central-directory offset, those below 24 included.
C16_NoMagicIsEmpty ==
    (pstate = "other" /\ ~MagicPresent(parse_input.words)) => result = SigOk(<<>>)

SignatureVariants ==
    {"V1", "V2", "V3", "V31", "StampBlockV1", "StampBlockV2", "ApkChannelBlock"}

\* C17 (as claimed): on an archive without a v1 signature file get_signatures
\* succeeds whenever the signing block reads, and no list it returns holds an
\* element outside V1, V2, V3, V31, StampV1, StampV2 and ApkChannel.
C17_NoUnknownElement ==
    pstate = "all" =>
        /\ (parse_input.v1_file = "none" /\ get_signatures_other(parse_input.words).ok)
              => result.ok
        /\ result.ok =>
              \A i \in 1..Len(result.signatures) :
                  result.signatures[i] \in SignatureVariants

(***************************************************************************)
(* Manifest attribute values: get_attr_value                               *)
(***************************************************************************)

\* The most items in a generated attribute table, and the largest item value
MaxItems == 3
MaxValue == 3

\* The halves of u32::MAX
U16Max == 65535

\* A u32 as its two 16-bit halves
U32(hi, lo) == [hi |-> hi, lo |-> lo]

\* if *value == u32::MAX { -1 } else { *value as i64 }
I64Value(value) ==
    IF value.hi = U16Max /\ value.lo = U16Max THEN -1 ELSE value.hi * (U16Max + 1) + value.lo

\* a & b on i64, for a and b that are not negative or are -1
RECURSIVE BitAnd(_, _)
BitAnd(a, b) ==
    IF a = -1 THEN b
    ELSE IF b = -1 THEN a
    ELSE IF a = 0 \/ b = 0 THEN 0
    ELSE (a % 2) * (b % 2) + 2 * BitAnd(a \div 2, b \div 2)

Item(name, value) == [name |-> name, value |-> value]

\* The "enum" arm: the first item of that value, else the number
RECURSIVE EnumLoop(_, _)
EnumLoop(items, i64_value) ==
    IF items = <<>> THEN ToString(i64_value)
    ELSE IF Head(items).value = i64_value THEN Head(items).name
    ELSE EnumLoop(Tail(items), i64_value)

\* The "flag" arm: the loop over the items with the result so far
RECURSIVE FlagLoop(_, _, _)
FlagLoop(items, i64_value, res) ==
    IF items = <<>> THEN res
    ELSE LET flag_name == Head(items).name
             flag_value == Head(items).value
         IN IF flag_value = i64_value THEN res \o flag_name
            ELSE IF flag_value # 0 /\ BitAnd(flag_value, i64_value) = flag_value
            THEN FlagLoop(Tail(items), i64_value,
                          (IF res # "" THEN res \o "|" ELSE res) \o flag_name)
            ELSE FlagLoop(Tail(items), i64_value, res)

\* get_attr_value over a table that holds the one attribute attrs.name
get_attr_value(attrs, name, value) ==
    IF name # attrs.name THEN None
    ELSE IF attrs.kind = "enum" THEN Some(EnumLoop(attrs.items, I64Value(value)))
    ELSE Some(FlagLoop(attrs.items, I64Value(value), ""))

\* The names the items of a generated table carry, by position
ItemNames == <<"mcc", "mnc", "locale", "touchscreen", "keyboard">>

RECURSIVE ItemsOf(_, _)
ItemsOf(values, i) ==
    IF i > Len(values) THEN <<>>
    ELSE <<Item(ItemNames[i], values[i])>> \o ItemsOf(values, i + 1)

\* The layouts of values in a table: no value twice
ValueLayouts ==
    { vs \in UNION { [1..n -> 0..MaxValue] : n \in 1..MaxItems } :
        \A i, j \in 1..Len(vs) : vs[i] = vs[j] => i = j }

\* Tables of every layout, as flags and as an enum
GeneratedAttrs ==
    { [name |-> "recreateOnConfigChanges", kind |-> k, items |-> ItemsOf(vs, 1)] :
        k \in {"flag", "enum"}, vs \in ValueLayouts }

\* The tables and values of the tests
ConfigChanges ==
    [name |-> "configChanges", kind |-> "flag",
     items |-> <<Item("mcc", 1), Item("mnc", 2), Item("locale", 4), Item("touchscreen", 8),
                 Item("keyboard", 16), Item("keyboardHidden", 32), Item("navigation", 64),
                 Item("orientation", 128), Item("screenLayout", 256)>>]
InstallLocation ==
    [name |-> "installLocation", kind |-> "enum",
     items |-> <<Item("auto", 0), Item("internalOnly", 1), Item("preferExternal", 2)>>]

AttrInputs ==
    { [attrs |-> a, name |-> n, value |-> v] :
        a \in GeneratedAttrs,
        n \in {"recreateOnConfigChanges", "label"},
        v \in { U32(0, lo) : lo \in 0..(MaxValue + 1) } \cup {U32(U16Max, U16Max)} }
    \cup { [attrs |-> ConfigChanges, name |-> "configChanges", value |-> U32(0, 304)],
           [attrs |-> InstallLocation, name |-> "installLocation", value |-> U32(0, 1)] }

InitAttr ==
    /\ parse_input \in AttrInputs
    /\ cursor = 0
    /\ pstate = "ready"
    /\ result = None
    /\ packages = <<>> /\ grv_stack = <<>> /\ grv_state = "idle" /\ grv_result = None
    /\ eocd_input = <<>> /\ chunk_size = 0 /\ eocd_end = 0
    /\ eocd_state = "done" /\ eocd_result = None
    /\ zip_raw = <<>> /\ zip_state = "failed" /\ central_directory = <<>>
    /\ local_headers = <<>> /\ read_name = "" /\ read_sizes = <<>>
    /\ read_result = <<>>
    /\ root = <<>> /\ query = <<>> /\ query_result = None

\* get_attr_value(name, value)
GetAttrValue ==
    /\ pstate = "ready"
    /\ result' = get_attr_value(parse_input.attrs, parse_input.name, parse_input.value)
    /\ pstate' = "done"
    /\ UNCHANGED <<parse_input, cursor, arscVars, eocdVars, zipVars, axmlVars>>

NextAttr == GetAttrValue

SpecAttr == InitAttr /\ [][NextAttr]_vars

\* The flags whose bits are all set in v, in table order. A flag of value 0
\* counts only for v = 0.
SetFlags(items, v) ==
    SelectSeq(items, LAMBDA it : BitAnd(it.value, v) = it.value /\ (it.value # 0 \/ v = 0))

\* The names of the items with one '|' between every two adjacent names
RECURSIVE JoinNames(_)
JoinNames(items) ==
    IF items = <<>> THEN ""
    ELSE IF Len(items) = 1 THEN items[1].name
    ELSE items[1].name \o "|" \o JoinNames(Tail(items))

\* C19 (as claimed): for a flag-typed attribute get_attr_value returns the
\* names of the flags whose bits are all set in v, in table order, with one
\* '|' between every two adjacent names; for an enum-typed attribute it
\* returns the name of the item whose value equals v.
C19_FlagNamesJoined ==
    (pstate = "done" /\ parse_input.name = parse_input.attrs.name) =>
        LET items == parse_input.attrs.items
            v == I64Value(parse_input.value)
        IN /\ parse_input.attrs.kind = "flag" =>
                 result = Some(JoinNames(SetFlags(items, v)))
           /\ parse_input.attrs.kind = "enum" =>
                 \A i \in 1..Len(items) :
                    (items[i].value = v /\ \A j \in 1..(i - 1) : items[j].value # v)
                        => result = Some(items[i].name)

(***************************************************************************)
(* ResTablePackage::parse: the loop over the sub-chunks of a package       *)
(***************************************************************************)

\* The input is held as 32-bit little-endian words and read at byte offsets
\* that are multiples of 4 (u16 offsets apart); u32 values above 0x7fffffff
\* are the signed value of the same 32 bits.

\* The most sub-chunks in a generated package
MaxChunks == 2

TablePackage == 512
TableType == 513
TableTypeSpec == 514
TableLibrary == 515
TableOverlayable == 516
TableOverlayablePolicy == 517
TableStagedAlias == 518
ChunkHeaderSize == 8
ConfigMinSize == 16
LibraryEntrySize == 260
OverlayableNameSize == 512
ResourceValueSize == 8
ResTableMapSize == 12
OFFSET16 == 2
FLAG_COMPLEX == 1
FLAG_COMPACT == 8
NoEntry32 == -1
NoEntry16 == 65535

Lo16(x) == x % 65536
Hi16(x) == ((x - (x % 65536)) \div 65536) % 65536
\* flags contains the one-bit flag
HasFlag(flags, bit) == (flags \div bit) % 2 = 1

\* le_u32 and le_u16 at byte offset b
ReadU32(w, b) == w[(b \div 4) + 1]
ReadU16(w, b) == IF b % 4 = 0 THEN Lo16(ReadU32(w, b)) ELSE Hi16(ReadU32(w, b))
ByteLen(w) == 4 * Len(w)

\* n bytes can be taken at b; a count with the top bit set never can
CanTake(w, b, n) == n >= 0 /\ b + n <= ByteLen(w)

\* ResChunkHeader::parse at b, where 8 bytes are there
ChunkHeaderAt(w, b) ==
    [type_ |-> Lo16(ReadU32(w, b)), header_size |-> Hi16(ReadU32(w, b)),
     size |-> ReadU32(w, b + 4)]

ChunkOk(pos) == [status |-> "ok", pos |-> pos]
ChunkErr == [status |-> "err", pos |-> 0]
ChunkPanic == [status |-> "panic", pos |-> 0]

\* ResTableTypeSpec::parse, b after the chunk header
ResTableTypeSpecParse(w, b) ==
    IF ~CanTake(w, b, 8) THEN ChunkErr
    ELSE IF ReadU32(w, b) % 256 = 0 THEN ChunkErr
    ELSE LET entry_count == ReadU32(w, b + 4)
         IN IF entry_count < 0 \/ entry_count > ByteLen(w)
               \/ ~CanTake(w, b + 8, 4 * entry_count)
            THEN ChunkErr
            ELSE ChunkOk(b + 8 + 4 * entry_count)

\* The bytes ResTableConfig::parse consumes for a config of this size
ConfigBytes(size) == IF size > ConfigMinSize THEN size ELSE ConfigMinSize

\* ResTableEntry::parse on entries_slice[offset..]: "ok", "err", or "panic"
\* for an offset behind the end of the slice
EntryParse(w, base, entries_size, offset) ==
    IF offset < 0 \/ offset > entries_size THEN "panic"
    ELSE LET left == entries_size - offset
             flags == ReadU16(w, base + offset + 2)
         IN IF left < 8 THEN "err"
            ELSE IF HasFlag(flags, FLAG_COMPLEX)
            THEN IF left < 16 THEN "err"
                 ELSE LET count == ReadU32(w, base + offset + 12)
                      IN IF count < 0 \/ count > left \/ left < 16 + ResTableMapSize * count
                         THEN "err" ELSE "ok"
            ELSE IF HasFlag(flags, FLAG_COMPACT) THEN "ok"
            ELSE IF left < 8 + ResourceValueSize THEN "err" ELSE "ok"

\* The entries of a Type chunk, offset after offset: the first failure ends
\* the collect
RECURSIVE EntriesParse(_, _, _, _, _, _, _)
EntriesParse(w, offsets_at, is_offset16, entry_count, i, base, entries_size) ==
    IF i >= entry_count THEN "ok"
    ELSE LET offset == IF is_offset16 THEN ReadU16(w, offsets_at + 2 * i)
                       ELSE ReadU32(w, offsets_at + 4 * i)
             is_no_entry == IF is_offset16 THEN offset = NoEntry16 ELSE offset = NoEntry32
             entry == IF is_no_entry THEN "ok"
                      ELSE EntryParse(w, base, entries_size, offset)
         IN IF entry # "ok" THEN entry
            ELSE EntriesParse(w, offsets_at, is_offset16, entry_count, i + 1, base,
                              entries_size)

\* The entries ResTableType::parse collects, b after the chunk header: for
\* every offset NoEntry or the place in the entries region the entry is
\* parsed at (entries_slice[offset as usize..]) with the index it carries
ResTableTypeEntries(w, b) ==
    LET flags == Lo16(ReadU32(w, b)) \div 256
        entry_count == ReadU32(w, b + 4)
        offsets_at == b + 12 + ConfigBytes(ReadU32(w, b + 12))
        is_offset16 == HasFlag(flags, OFFSET16)
        base == offsets_at + (IF is_offset16 THEN 2 ELSE 4) * entry_count
    IN [i \in 1..entry_count |->
          LET offset == IF is_offset16 THEN ReadU16(w, offsets_at + 2 * (i - 1))
                        ELSE ReadU32(w, offsets_at + 4 * (i - 1))
              is_no_entry == IF is_offset16 THEN offset = NoEntry16 ELSE offset = NoEntry32
          IN IF is_no_entry THEN [no_entry |-> TRUE, at |-> 0, index |-> 0]
             ELSE [no_entry |-> FALSE, at |-> offset,
                   index |-> ReadU32(w, base + offset + 4)]]

\* ResTableType::parse, b after the chunk header
ResTableTypeParse(header, w, b) ==
    IF ~CanTake(w, b, 12 + ConfigMinSize) THEN ChunkErr
    ELSE LET flags == Lo16(ReadU32(w, b)) \div 256
             entry_count == ReadU32(w, b + 4)
             entries_start == ReadU32(w, b + 8)
             config_size == ReadU32(w, b + 12)
             offsets_at == b + 12 + ConfigBytes(config_size)
             is_offset16 == HasFlag(flags, OFFSET16)
             offsets_len == (IF is_offset16 THEN 2 ELSE 4) * entry_count
             base == offsets_at + offsets_len
             entries_size == IF entries_start < 0 THEN 0
                             ELSE saturating_sub(header.size, entries_start)
         IN IF config_size < 0 \/ ~CanTake(w, b + 12, ConfigBytes(config_size)) THEN ChunkErr
            ELSE IF entry_count < 0 \/ entry_count > ByteLen(w)
                    \/ ~CanTake(w, offsets_at, offsets_len) THEN ChunkErr
            ELSE IF ~CanTake(w, base, entries_size) THEN ChunkErr
            ELSE LET entries == EntriesParse(w, offsets_at, is_offset16, entry_count, 0,
                                             base, entries_size)
                 IN IF entries = "panic" THEN ChunkPanic
                    ELSE IF entries = "err" THEN ChunkErr
                    ELSE ChunkOk(base + entries_size)

\* ResTableLibrary::parse
ResTableLibraryParse(w, b) ==
    IF ~CanTake(w, b, 4) THEN ChunkErr
    ELSE LET count == ReadU32(w, b)
         IN IF count < 0 \/ count > ByteLen(w) \/ ~CanTake(w, b + 4, LibraryEntrySize * count)
            THEN ChunkErr
            ELSE ChunkOk(b + 4 + LibraryEntrySize * count)

\* ResTableOverlayble::parse
ResTableOverlaybleParse(w, b) ==
    IF ~CanTake(w, b, 2 * OverlayableNameSize) THEN ChunkErr
    ELSE ChunkOk(b + 2 * OverlayableNameSize)

\* ResTableOverlayblePolicy::parse
ResTableOverlayblePolicyParse(w, b) ==
    IF ~CanTake(w, b, 8) THEN ChunkErr
    ELSE LET entry_count == ReadU32(w, b + 4)
         IN IF entry_count < 0 \/ entry_count > ByteLen(w)
               \/ ~CanTake(w, b + 8, 4 * entry_count)
            THEN ChunkErr
            ELSE ChunkOk(b + 8 + 4 * entry_count)

\* The match on header.type_ in the loop: every other type only logs
SubChunkParse(header, w, b) ==
    CASE header.type_ = TableTypeSpec -> ResTableTypeSpecParse(w, b)
      [] header.type_ = TableType -> ResTableTypeParse(header, w, b)
      [] header.type_ = TableLibrary -> ResTableLibraryParse(w, b)
      [] header.type_ = TableOverlayable -> ResTableOverlaybleParse(w, b)
      [] header.type_ = TableOverlayablePolicy -> ResTableOverlayblePolicyParse(w, b)
      [] OTHER -> ChunkOk(b)

\* n zero words
Zeros(n) == [i \in 1..n |-> 0]

\* The words of a chunk header
HeaderWords(type_, header_size, size) == <<type_ + 65536 * header_size, size>>

\* A TypeSpec chunk of n flags, with pad more bytes declared and present
TypeSpecChunk(n, pad) ==
    HeaderWords(TableTypeSpec, 16, 16 + 4 * n + pad) \o <<1, n>> \o Zeros(n) \o Zeros(pad \div 4)

\* A Type chunk of a 16-byte config and n entries: the offsets given, one
\* default entry in the entries region, entries_start moved by shift
TypeChunkWith(flags, offsets, shift, region) ==
    LET n == IF HasFlag(flags, OFFSET16) THEN 2 * Len(offsets) ELSE Len(offsets)
    IN HeaderWords(TableType, 36, 36 + 4 * Len(offsets) + 4 * Len(region))
       \o <<1 + 256 * flags, n, 36 + 4 * Len(offsets) + shift, ConfigMinSize, 0, 0, 0>>
       \o offsets \o region
TypeChunk(flags, offsets, shift) == TypeChunkWith(flags, offsets, shift, <<8, 0, 8, 0>>)

\* Two default entries, of key index 1 and 2, 16 bytes apart
TwoEntries == <<8, 1, 8, 0, 8, 2, 8, 0>>

\* A Library chunk of count entries
LibraryChunk(count) ==
    HeaderWords(TableLibrary, 12, 12 + LibraryEntrySize * count) \o <<count>>
    \o Zeros((LibraryEntrySize \div 4) * count)

\* A Policy chunk of n references
PolicyChunk(n) ==
    HeaderWords(TableOverlayablePolicy, 16, 16 + 4 * n) \o <<1, n>> \o Zeros(n)

\* An Overlayable chunk with the policy chunks it holds
OverlayableChunk(policies) ==
    HeaderWords(TableOverlayable, ChunkHeaderSize + 2 * OverlayableNameSize,
                ChunkHeaderSize + 2 * OverlayableNameSize + 4 * Len(policies))
    \o Zeros((2 * OverlayableNameSize) \div 4) \o policies

\* A StagedAlias chunk of count pairs of ids
StagedAliasChunk(count) ==
    HeaderWords(TableStagedAlias, 12, 12 + 8 * count) \o <<count>> \o Zeros(2 * count)

\* A chunk of a type the parser does not know, with n bytes of body
UnknownChunk(n) == HeaderWords(768, ChunkHeaderSize, ChunkHeaderSize + n) \o Zeros(n \div 4)

ChunkKinds ==
    { TypeSpecChunk(1, 0), TypeSpecChunk(0, 4),
      TypeChunk(0, <<0>>, 0), TypeChunk(0, <<NoEntry32>>, 0), TypeChunk(0, <<0>>, 4),
      TypeChunk(0, <<NoEntry32>>, 4), TypeChunk(0, <<20>>, 0),
      TypeChunk(OFFSET16, <<NoEntry16>>, 0),
      TypeChunkWith(OFFSET16, <<4 * 65536>>, 0, TwoEntries),
      TypeChunkWith(0, <<0, 16>>, 0, TwoEntries),
      LibraryChunk(0), LibraryChunk(1),
      OverlayableChunk(<<>>), OverlayableChunk(PolicyChunk(1)), PolicyChunk(0),
      StagedAliasChunk(0), StagedAliasChunk(1),
      UnknownChunk(0), UnknownChunk(8) }

\* What follows the sub-chunks: nothing, the next package, or an odd word
PackageTails == { <<>>, HeaderWords(TablePackage, 288, 288), <<0>> }

PackageInputs ==
    { Flatten(chunks) \o tail :
        chunks \in UNION { [1..n -> ChunkKinds] : n \in 1..MaxChunks },
        tail \in PackageTails }

NoChunk == [type_ |-> 0, header_size |-> 0, size |-> 0, start |-> 0, entries |-> <<>>]

InitPackage ==
    /\ parse_input \in PackageInputs
    /\ cursor = 0
    /\ pstate = "loop"
    /\ result = NoChunk
    /\ packages = <<>> /\ grv_stack = <<>> /\ grv_state = "idle" /\ grv_result = None
    /\ eocd_input = <<>> /\ chunk_size = 0 /\ eocd_end = 0
    /\ eocd_state = "done" /\ eocd_result = None
    /\ zip_raw = <<>> /\ zip_state = "failed" /\ central_directory = <<>>
    /\ local_headers = <<>> /\ read_name = "" /\ read_sizes = <<>>
    /\ read_result = <<>>
    /\ root = <<>> /\ query = <<>> /\ query_result = None

\* The loop ends: no header can be read, or the header of the next package
\* is read and the input is reset to the checkpoint
PackageLoopBreak ==
    /\ pstate = "loop"
    /\ \/ ~CanTake(parse_input, cursor, ChunkHeaderSize)
       \/ /\ CanTake(parse_input, cursor, ChunkHeaderSize)
          /\ ChunkHeaderAt(parse_input, cursor).type_ = TablePackage
    /\ pstate' = "done"
    /\ UNCHANGED <<parse_input, cursor, result, arscVars, eocdVars, zipVars, axmlVars>>

\* One turn of the loop: the header and the sub-chunk behind it
PackageLoopChunk ==
    /\ pstate = "loop"
    /\ CanTake(parse_input, cursor, ChunkHeaderSize)
    /\ LET header == ChunkHeaderAt(parse_input, cursor)
           parsed == SubChunkParse(header, parse_input, cursor + ChunkHeaderSize)
       IN /\ header.type_ # TablePackage
          /\ pstate' = IF parsed.status = "ok" THEN "loop" ELSE parsed.status
          /\ cursor' = IF parsed.status = "ok" THEN parsed.pos ELSE cursor
          /\ result' = [type_ |-> header.type_, header_size |-> header.header_size,
                        size |-> header.size, start |-> cursor,
                        entries |-> IF parsed.status = "ok" /\ header.type_ = TableType
                                    THEN ResTableTypeEntries(parse_input,
                                                             cursor + ChunkHeaderSize)
                                    ELSE <<>>]
    /\ UNCHANGED <<parse_input, arscVars, eocdVars, zipVars, axmlVars>>

NextPackage ==
    \/ PackageLoopBreak
    \/ PackageLoopChunk

SpecPackage == InitPackage /\ [][NextPackage]_vars

\* A sub-chunk has been handled and the loop goes on
SubChunkHandled == pstate = "loop" /\ result # NoChunk

\* C20 (as claimed): after any sub-chunk is handled the cursor stands at the
\* chunk's start plus its declared size.
C20_CursorAtChunkEnd ==
    SubChunkHandled => cursor = result.start + result.size

\* The i-th entry offset as the Type chunk last handled stores it
StoredOffset(i) ==
    LET b == result.start + ChunkHeaderSize
        offsets_at == b + 12 + ConfigBytes(ReadU32(parse_input, b + 12))
    IN IF HasFlag(Lo16(ReadU32(parse_input, b)) \div 256, OFFSET16)
       THEN ReadU16(parse_input, offsets_at + 2 * (i - 1))
       ELSE ReadU32(parse_input, offsets_at + 4 * (i - 1))

Offsets16 == HasFlag(Lo16(ReadU32(parse_input, result.start + ChunkHeaderSize)) \div 256, OFFSET16)

\* C21 (as claimed): with flag bit 0x02 each offset is a u16, 0xFFFF is
\* NoEntry and every other value v locates the entry v * 4 bytes into the
\* entries region; with the flag clear offsets are u32 and 0xFFFFFFFF is
\* NoEntry.
C21_Offset16TimesFour ==
    (SubChunkHandled /\ result.type_ = TableType) =>
        \A i \in 1..Len(result.entries) :
            LET v == StoredOffset(i)
                entry == result.entries[i]
            IN IF Offsets16
               THEN /\ entry.no_entry <=> v = 65535
                    /\ ~entry.no_entry => entry.at = 4 * v
               ELSE /\ entry.no_entry <=> v = -1
                    /\ ~entry.no_entry => entry.at = v

\* ---------------------------------------------------------------------------
\* Slicing and indexing of the string pool and of the Type chunk
\* ---------------------------------------------------------------------------

\* C24 (as claimed): StringPool::parse never panics: a string offset larger
\* than the sliced region, a strings_start larger than the chunk size or
\* smaller than style_count * 4 + 28 ends in a skipped string or a parse
\* error.
C24_PoolParseNeverPanics ==
    pstate = "done" => (result.ok \/ result.err # "panic")

\* C28 (as claimed): after a successful parse, get(i) is the string decoded
\* at string_offsets[i], for every offset whose string decodes, whatever
\* happened to the strings before it.
C28_GetFindsStringAtOffset ==
    (pstate \in {"done", "got"} /\ result.ok) =>
        \A i \in GetIndexes :
            (i + 1 \in DOMAIN result.parsed /\ result.parsed[i + 1].ok) =>
                PoolGet(result.strings, i) = Some(result.parsed[i + 1].string)

\* ---------------------------------------------------------------------------
\* The ID/value pairs of the signing block, one parse_apk_signatures at a time
\* ---------------------------------------------------------------------------

\* A v2 value with a second signer after the first, as an APK signed by two
\* keys carries it
TwoSignersValue == V2Value(DerSequence) \o V2Value(DerSequence)

\* The pairs of PairKinds, a v2 pair of two signers, a stamp with bytes after
\* its last field, and an unknown pair of size 0
SizedPairKinds ==
    (PairKinds \ {<<4 * WordSize, 0, APK_CHANNEL_BLOCK_ID, 65>>})
    \cup { Pair(SIGNATURE_SCHEME_V2_BLOCK_ID, TwoSignersValue),
           Pair(V1_SOURCE_STAMP_BLOCK_ID, StampV1Value(DerSequence) \o <<0>>),
           <<0, 0, 1>> }

PairInputs == { Flatten(ps) : ps \in UNION { [1..n -> SizedPairKinds] : n \in 1..MaxPairs } }

NoPair == [start |-> 0, size |-> 0, id |-> 0, sig |-> ""]

InitPairs ==
    /\ parse_input \in PairInputs
    /\ cursor = 0
    /\ pstate = "pairs"
    /\ result = NoPair
    /\ packages = <<>> /\ grv_stack = <<>> /\ grv_state = "idle" /\ grv_result = None
    /\ eocd_input = <<>> /\ chunk_size = 0 /\ eocd_end = 0
    /\ eocd_state = "done" /\ eocd_result = None
    /\ zip_raw = <<>> /\ zip_state = "failed" /\ central_directory = <<>>
    /\ local_headers = <<>> /\ read_name = "" /\ read_sizes = <<>>
    /\ read_result = <<>>
    /\ root = <<>> /\ query = <<>> /\ query_result = None

\* One parse_apk_signatures of repeat(0.., ..) that returns a signature: the
\* cursor moves to where the parser stopped
ParseApkSignatures ==
    /\ pstate = "pairs"
    /\ LET r == parse_apk_signatures(parse_input, WordsIn(cursor))
       IN /\ r.ok
          /\ cursor' = WordSize * r.pos
          /\ result' = [start |-> cursor, size |-> U64At(parse_input, WordsIn(cursor)),
                        id |-> U32At(parse_input, WordsIn(cursor) + 2), sig |-> r.sig]
    /\ pstate' = "pairs"
    /\ UNCHANGED <<parse_input, arscVars, eocdVars, zipVars, axmlVars>>

\* The parse_apk_signatures that fails ends the repeat; the cursor stays
RepeatEnd ==
    /\ pstate = "pairs"
    /\ LET r == parse_apk_signatures(parse_input, WordsIn(cursor))
       IN /\ ~r.ok
          /\ pstate' = IF r.panic THEN "panic" ELSE "end"
    /\ UNCHANGED <<parse_input, cursor, result, arscVars, eocdVars, zipVars, axmlVars>>

NextPairs ==
    \/ ParseApkSignatures
    \/ RepeatEnd

SpecPairs == InitPairs /\ [][NextPairs]_vars

PairHandled == pstate = "pairs" /\ result # NoPair

\* C26 (as claimed): handling one ID/value pair advances the cursor by
\* exactly 8 + entry_size, for every block id.
C26_PairAdvance ==
    PairHandled => cursor = result.start + SizeFieldSize + result.size

\* ---------------------------------------------------------------------------
\* Names listed and names readable
\* ---------------------------------------------------------------------------

Listed(filename) == \E i \in DOMAIN namelist : namelist[i] = filename

\* C29 (as claimed): in an archive ZipEntry::new opened, every name that
\* namelist() yields has a local-header record, and read of such a name
\* never returns FileNotFound.
C29_ListedNamesReadable ==
    zip_state = "open" =>
        /\ \A i \in DOMAIN namelist : HasKey(local_headers, namelist[i])
        /\ (read_name # "" /\ Listed(read_name)) => read_result # ReadErr("FileNotFound")

\* ---------------------------------------------------------------------------
\* The element stack of get_xml_tree
\* ---------------------------------------------------------------------------

\* A start element get_xml_tree skips: its name index is absent from the pool
SkippedStart(node, string_pool) ==
    node.node = "XmlStartElement" /\ ~PoolGet(string_pool, node.name).some

\* The elements without the skipped start elements that are closed at once,
\* and without the end elements that close them
RECURSIVE WithoutSkipped(_, _)
WithoutSkipped(elements, string_pool) ==
    IF elements = <<>> THEN <<>>
    ELSE IF Len(elements) >= 2 /\ SkippedStart(elements[1], string_pool)
            /\ elements[2].node = "XmlEndElement"
    THEN WithoutSkipped(Tail(Tail(elements)), string_pool)
    ELSE <<Head(elements)>> \o WithoutSkipped(Tail(elements), string_pool)

\* The name of the first start element that is not skipped
RECURSIVE FirstOpened(_, _)
FirstOpened(elements, string_pool) ==
    IF elements = <<>> THEN None
    ELSE IF Head(elements).node = "XmlStartElement" /\ ~SkippedStart(Head(elements), string_pool)
    THEN PoolGet(string_pool, Head(elements).name)
    ELSE FirstOpened(Tail(elements), string_pool)

\* C30 (as claimed): the element stack stays matched. The end element of a
\* skipped start element closes that element and no other, so the tree is
\* the tree of the same elements without the skipped element and its end:
\* every element is a child of the element open when it started. The root
\* returned is the first element opened.
C30_StackStaysMatched ==
    (pstate = "done" /\ parse_input.kind = "axml" /\ result.ok) =>
        /\ result.root = get_xml_tree(WithoutSkipped(parse_input.elements.val,
                                                     parse_input.string_pool.val),
                                      parse_input.string_pool.val,
                                      parse_input.resource_map.val)
        /\ Some(result.root.val.name) = FirstOpened(parse_input.elements.val,
                                                    parse_input.string_pool.val)

\* ---------------------------------------------------------------------------
\* XmlStartElement::parse: padding, attribute records, trailing bytes
\* ---------------------------------------------------------------------------

MaxAttributes == 2
DEFAULT_ATTRIBUTE_SIZE == 20
\* namespace_uri, name and the six u16 fields of the start element
StartElementFields == 20
\* namespace_uri, name, value of an attribute, before its typed value
AttributeFields == 12

\* An attribute parser that never scrolls past the 20 bytes it reads
NoExtra(attribute_size) == 0

\* attribute_size.checked_sub(DEFAULT_ATTRIBUTE_SIZE), 0 when it is None
AttributeExtra(attribute_size) ==
    IF attribute_size >= DEFAULT_ATTRIBUTE_SIZE
    THEN attribute_size - DEFAULT_ATTRIBUTE_SIZE ELSE 0

\* XmlAttributeElement::parse(attribute_size) at byte pos of len bytes: the
\* position after the attribute, or -1 when the input ends before it
XmlAttributeElementParse(attribute_size, pos, len) ==
    IF pos + AttributeFields + ResourceValueSize > len THEN -1
    ELSE LET after == pos + AttributeFields + ResourceValueSize
             extra == AttributeExtra(attribute_size)
         IN IF extra > 0 /\ after + extra > len THEN -1 ELSE after + extra

\* repeat(attribute_count, XmlAttributeElement::parse(attribute_size)): the
\* positions after each attribute parsed, ending with -1 on a failure
RECURSIVE RepeatAttributes(_, _, _, _, _)
RepeatAttributes(n, attribute_size, pos, len, ends) ==
    IF n = 0 THEN ends
    ELSE LET after == XmlAttributeElementParse(attribute_size, pos, len)
         IN IF after < 0 THEN Append(ends, -1)
            ELSE RepeatAttributes(n - 1, attribute_size, after, len, Append(ends, after))

StartErr == [ok |-> FALSE, attributes_at |-> 0, attribute_ends |-> <<>>, pos |-> 0]

\* XmlStartElement::parse over len bytes that follow the XMLHeader
XmlStartElementParse(el, len) ==
    IF StartElementFields > len THEN StartErr
    ELSE LET tampered_attribute_size == saturating_sub(el.attribute_start, DEFAULT_ATTRIBUTE_SIZE)
             attributes_at == StartElementFields + tampered_attribute_size
         IN IF attributes_at > len THEN StartErr
            ELSE LET ends == RepeatAttributes(el.attribute_count, el.attribute_size,
                                              attributes_at, len, <<>>)
                     readed_bytes == IF ends = <<>> THEN attributes_at ELSE ends[Len(ends)]
                     tampered_chunk_size == saturating_sub(el.content_size, readed_bytes)
                 IN IF readed_bytes < 0 \/ readed_bytes + tampered_chunk_size > len
                    THEN StartErr
                    ELSE [ok |-> TRUE, attributes_at |-> attributes_at,
                          attribute_ends |-> ends, pos |-> readed_bytes + tampered_chunk_size]

\* The start elements tried: canonical and other attribute_start and
\* attribute_size, chunks that end with the attributes or after them, inputs
\* that hold the chunk or end before it
StartElementInputs ==
    { [attribute_start |-> s, attribute_size |-> z, attribute_count |-> n,
       content_size |-> c, len |-> l] :
        s \in {0, 16, 20, 28}, z \in {0, 16, 20, 28}, n \in 0..MaxAttributes,
        c \in {0, 20, 68, 100}, l \in {16, 60, 100} }

InitStart ==
    /\ parse_input \in StartElementInputs
    /\ cursor = 0
    /\ pstate = "start"
    /\ result = StartErr
    /\ packages = <<>> /\ grv_stack = <<>> /\ grv_state = "idle" /\ grv_result = None
    /\ eocd_input = <<>> /\ chunk_size = 0 /\ eocd_end = 0
    /\ eocd_state = "done" /\ eocd_result = None
    /\ zip_raw = <<>> /\ zip_state = "failed" /\ central_directory = <<>>
    /\ local_headers = <<>> /\ read_name = "" /\ read_sizes = <<>>
    /\ read_result = <<>>
    /\ root = <<>> /\ query = <<>> /\ query_result = None

\* XmlStartElement::parse returns the element
StartElementOk ==
    /\ pstate = "start"
    /\ XmlStartElementParse(parse_input, parse_input.len).ok
    /\ result' = XmlStartElementParse(parse_input, parse_input.len)
    /\ cursor' = result'.pos
    /\ pstate' = "element"
    /\ UNCHANGED <<parse_input, arscVars, eocdVars, zipVars, axmlVars>>

\* XmlStartElement::parse fails: the input ended first
StartElementErr ==
    /\ pstate = "start"
    /\ ~XmlStartElementParse(parse_input, parse_input.len).ok
    /\ pstate' = "incomplete"
    /\ UNCHANGED <<parse_input, cursor, result, arscVars, eocdVars, zipVars, axmlVars>>

NextStart ==
    \/ StartElementOk
    \/ StartElementErr

SpecStart == InitStart /\ [][NextStart]_vars

\* The bytes the i-th attribute record took
AttributeBytes(i) ==
    result.attribute_ends[i]
        - (IF i = 1 THEN result.attributes_at ELSE result.attribute_ends[i - 1])

PaddingSkipped ==
    result.attributes_at - StartElementFields =
        (IF parse_input.attribute_start > 20 THEN parse_input.attribute_start - 20 ELSE 0)

\* C22 (as claimed): the padding before the first attribute is
\* attribute_start - 0x14 when attribute_start exceeds 0x14, and each of the
\* attribute_count records takes exactly attribute_size bytes, for every
\* attribute_size.
C22_AttributeSizeEach ==
    pstate = "element" =>
        /\ PaddingSkipped
        /\ Len(result.attribute_ends) = parse_input.attribute_count
        /\ \A i \in DOMAIN result.attribute_ends :
              AttributeBytes(i) = parse_input.attribute_size

\* C22 (amended): the padding is as claimed, and each record takes
\* attribute_size bytes when attribute_size is at least 0x14 and 0x14 bytes
\* when it is smaller: the five fields of a record are always read.
C22_AttributeSizeAtLeastDefault ==
    pstate = "element" =>
        /\ PaddingSkipped
        /\ Len(result.attribute_ends) = parse_input.attribute_count
        /\ \A i \in DOMAIN result.attribute_ends :
              AttributeBytes(i) = (IF parse_input.attribute_size >= 20
                                   THEN parse_input.attribute_size ELSE 20)

\* C22 witness: an element with 8 bytes of padding and two records of 28
\* bytes each has been parsed.
C22_Witness ==
    /\ pstate = "element"
    /\ parse_input.attribute_start = 28 /\ parse_input.attribute_size = 28
    /\ Len(result.attribute_ends) = 2
    /\ result.attributes_at = 28 /\ result.attribute_ends = <<56, 84>>

\* ---------------------------------------------------------------------------
\* AXML::parse_xml_tree, one iteration of its loop at a time
\* ---------------------------------------------------------------------------

MaxTreeChunks == 2
TypeXmlStartNamespace == 256
TypeXmlEndNamespace == 257
TypeXmlEndElement == 259
TypeXmlCdata == 260
TypeXmlLastChunk == 383
XmlChunkHeaderSize == 16
XmlHeaderFields == 8
NamespaceFields == 8
CDataFields == 12

\* type_ < XmlStartNamespace || type_ > XmlLastChunk, negated, in the derived
\* order of ResourceType: every value without a variant of its own is
\* Unknown(_), the last variant
IsXmlChunk(type_) ==
    type_ \in {TypeXmlStartNamespace, TypeXmlEndNamespace, TypeXmlStartElement, TypeXmlEndElement,
               TypeXmlCdata, TypeXmlLastChunk}

\* The bytes `take` is asked for when a chunk is skipped. src/axml computes
\* chunk_header.size - 8 in u32: below 8 the subtraction panics where
\* overflow checks are on and wraps to a count no input holds where they
\* are off (-1 here). src/crates/axml asks for content_size(), the
\* saturating difference.
SkippedPayload(size, overflow_checks) ==
    IF size >= ChunkHeaderSize THEN [panic |-> FALSE, n |-> size - ChunkHeaderSize]
    ELSE [panic |-> overflow_checks, n |-> -1]

\* The element parser of a chunk type at byte b, after the XMLHeader: the
\* position it stops at, or -1 for its error
ElementParse(header, w, b) ==
    LET fixed(n) == IF CanTake(w, b, n) THEN b + n ELSE -1
    IN CASE header.type_ \in {TypeXmlStartNamespace, TypeXmlEndNamespace, TypeXmlEndElement} ->
                fixed(NamespaceFields)
         [] header.type_ = TypeXmlCdata -> fixed(CDataFields)
         [] header.type_ = TypeXmlStartElement ->
                IF ~CanTake(w, b, StartElementFields) THEN -1
                ELSE LET el == [attribute_start |-> ReadU16(w, b + 8),
                                attribute_size |-> ReadU16(w, b + 10),
                                attribute_count |-> ReadU16(w, b + 12),
                                content_size |->
                                    saturating_sub(saturating_sub(header.size, ChunkHeaderSize),
                                                   XmlHeaderFields)]
                         e == XmlStartElementParse(el, ByteLen(w) - b)
                     IN IF e.ok THEN b + e.pos ELSE -1
         [] OTHER -> b

\* Chunks of the tree, and chunks that are skipped
NamespaceChunk(type_) == HeaderWords(type_, XmlChunkHeaderSize, 24) \o <<1, -1, 0, 1>>
CDataChunk == HeaderWords(TypeXmlCdata, XmlChunkHeaderSize, 28) \o <<1, -1, 2, 8, 0>>
StartElementChunk(n) ==
    HeaderWords(TypeXmlStartElement, XmlChunkHeaderSize, 36 + 20 * n)
        \o <<1, -1, -1, 0, 20 + 65536 * 20, n, 0>> \o Zeros(5 * n)
SkippedChunk(type_, header_size, size, present) ==
    HeaderWords(type_, header_size, size) \o Zeros(present)

TreeChunkKinds ==
    { NamespaceChunk(TypeXmlStartNamespace), NamespaceChunk(TypeXmlEndNamespace),
      NamespaceChunk(TypeXmlEndElement), CDataChunk,
      StartElementChunk(0), StartElementChunk(1),
      HeaderWords(TypeXmlLastChunk, XmlChunkHeaderSize, 16) \o <<1, -1>>,
      SkippedChunk(1, XmlChunkHeaderSize, 16, 2),
      SkippedChunk(TypeXmlStartElement, 8, 16, 2),
      SkippedChunk(384, XmlChunkHeaderSize, 8, 0),
      SkippedChunk(0, 0, 0, 0),
      SkippedChunk(1, XmlChunkHeaderSize, 4, 0),
      SkippedChunk(1, XmlChunkHeaderSize, 64, 1) }

TreeTails ==
    { <<>>, <<TypeXmlStartElement + 65536 * XmlChunkHeaderSize>>,
      HeaderWords(TypeXmlEndElement, XmlChunkHeaderSize, 24) \o <<1>>,
      HeaderWords(TypeXmlEndElement, XmlChunkHeaderSize, 24) \o <<1, -1, 0>> }

TreeInputs ==
    { Flatten(cs) \o t :
        cs \in UNION { [1..n -> TreeChunkKinds] : n \in 0..MaxTreeChunks }, t \in TreeTails }

NoIteration == [start |-> 0, elements |-> 0, skipped |-> FALSE, size |-> 0]

InitTree ==
    /\ parse_input \in TreeInputs
    /\ cursor = 0
    /\ pstate = "tree"
    /\ result = NoIteration
    /\ packages = <<>> /\ grv_stack = <<>> /\ grv_state = "idle" /\ grv_result = None
    /\ eocd_input = <<>> /\ chunk_size = 0 /\ eocd_end = 0
    /\ eocd_state = "done" /\ eocd_result = None
    /\ zip_raw = <<>> /\ zip_state = "failed" /\ central_directory = <<>>
    /\ local_headers = <<>> /\ read_name = "" /\ read_sizes = <<>>
    /\ read_result = <<>>
    /\ root = <<>> /\ query = <<>> /\ query_result = None

\* ResChunkHeader::parse or XMLHeader::parse fails: return Ok(elements)
TreeReturn ==
    /\ pstate = "tree"
    /\ \/ ~CanTake(parse_input, cursor, ChunkHeaderSize)
       \/ /\ CanTake(parse_input, cursor, ChunkHeaderSize)
          /\ IsXmlChunk(ChunkHeaderAt(parse_input, cursor).type_)
          /\ ChunkHeaderAt(parse_input, cursor).header_size = XmlChunkHeaderSize
          /\ ~CanTake(parse_input, cursor + ChunkHeaderSize, XmlHeaderFields)
    /\ pstate' = "ok"
    /\ UNCHANGED <<parse_input, cursor, result, arscVars, eocdVars, zipVars, axmlVars>>

\* An iteration that skips the chunk: `let _ = take(..)`, continue
TreeSkipChunk ==
    /\ pstate = "tree"
    /\ CanTake(parse_input, cursor, ChunkHeaderSize)
    /\ LET header == ChunkHeaderAt(parse_input, cursor)
       IN /\ ~IsXmlChunk(header.type_) \/ header.header_size # XmlChunkHeaderSize
          /\ \E overflow_checks \in BOOLEAN :
                LET payload == SkippedPayload(header.size, overflow_checks)
                    b == cursor + ChunkHeaderSize
                IN /\ pstate' = IF payload.panic THEN "panic" ELSE "tree"
                   /\ cursor' = IF payload.panic THEN cursor
                                ELSE IF CanTake(parse_input, b, payload.n) THEN b + payload.n
                                ELSE b
          /\ result' = [start |-> cursor, elements |-> result.elements, skipped |-> TRUE,
                        size |-> header.size]
    /\ UNCHANGED <<parse_input, arscVars, eocdVars, zipVars, axmlVars>>

\* An iteration that parses the element of the chunk and pushes it, or
\* returns the element parser's error
TreeElement ==
    /\ pstate = "tree"
    /\ CanTake(parse_input, cursor, ChunkHeaderSize + XmlHeaderFields)
    /\ LET header == ChunkHeaderAt(parse_input, cursor)
           after == ElementParse(header, parse_input,
                                 cursor + ChunkHeaderSize + XmlHeaderFields)
       IN /\ IsXmlChunk(header.type_) /\ header.header_size = XmlChunkHeaderSize
          /\ pstate' = IF after < 0 THEN "err" ELSE "tree"
          /\ cursor' = IF after < 0 THEN cursor ELSE after
          /\ result' = [start |-> cursor,
                        elements |-> result.elements + (IF after < 0 THEN 0 ELSE 1),
                        skipped |-> FALSE, size |-> header.size]
    /\ UNCHANGED <<parse_input, arscVars, eocdVars, zipVars, axmlVars>>

NextTree ==
    \/ TreeReturn
    \/ TreeSkipChunk
    \/ TreeElement

SpecTree == InitTree /\ [][NextTree]_vars

\* C23 (as claimed): parse_xml_tree never panics, every iteration that goes
\* on consumed at least the chunk header it read, and a chunk that is
\* skipped is stepped over, header and payload, whenever the input holds the
\* payload; a declared size below 8 or past the end of the input changes
\* none of this.
C23_TreeTerminatesWithoutPanic ==
    /\ pstate # "panic"
    /\ (pstate = "tree" /\ result # NoIteration) =>
          /\ cursor >= result.start + ChunkHeaderSize
          /\ (result.skipped /\ result.size >= ChunkHeaderSize
                /\ result.start + result.size <= ByteLen(parse_input)) =>
                cursor = result.start + result.size

\* ---------------------------------------------------------------------------
\* The extract command: the loop of extract over namelist()
\* ---------------------------------------------------------------------------

MaxNameLen == 6
NameChars == {"a", ".", "/"}

\* str::ends_with('/') and str::starts_with("..") over a name held as the
\* sequence of its characters
EndsWithSlash(name) == name[Len(name)] = "/"
StartsWithDotDot(name) == Len(name) >= 2 /\ name[1] = "." /\ name[2] = "."

\* The segments of a name between its '/' characters
RECURSIVE Segments(_, _, _)
Segments(name, current, done) ==
    IF name = <<>> THEN Append(done, current)
    ELSE IF Head(name) = "/" THEN Segments(Tail(name), <<>>, Append(done, current))
    ELSE Segments(Tail(name), Append(current, Head(name)), done)

DotDot == <<".", ".">>
Dot == <<".">>

\* Path::join: an absolute name replaces out_dir
IsAbsolute(name) == name[1] = "/"

\* Whether the directories of the segments lead out of out_dir: the depth
\* below out_dir falls under 0 at some segment
RECURSIVE LeavesOutDir(_, _)
LeavesOutDir(segments, depth) ==
    IF segments = <<>> THEN FALSE
    ELSE IF Head(segments) = DotDot
    THEN depth = 0 \/ LeavesOutDir(Tail(segments), depth - 1)
    ELSE IF Head(segments) \in {Dot, <<>>} THEN LeavesOutDir(Tail(segments), depth)
    ELSE LeavesOutDir(Tail(segments), depth + 1)

\* Where File::create(out_dir.join(file_name)) puts the file
WritesOutside(name) == IsAbsolute(name) \/ LeavesOutDir(Segments(name, <<>>, <<>>), 0)

\* File::create fails on a path that names a directory
NamesDirectory(name) ==
    LET segments == Segments(name, <<>>, <<>>)
    IN segments[Len(segments)] \in {Dot, DotDot}

\* The archives extracted: one name of up to MaxNameLen characters, alone or
\* followed by a plain name
ExtractInputs ==
    UNION { { <<name>>, <<name, <<"a">>>> } :
              name \in UNION { [1..n -> NameChars] : n \in 1..MaxNameLen } }

InitExtract ==
    /\ parse_input \in ExtractInputs
    /\ cursor = 1
    /\ pstate = "extract"
    /\ result = <<>>
    /\ packages = <<>> /\ grv_stack = <<>> /\ grv_state = "idle" /\ grv_result = None
    /\ eocd_input = <<>> /\ chunk_size = 0 /\ eocd_end = 0
    /\ eocd_state = "done" /\ eocd_result = None
    /\ zip_raw = <<>> /\ zip_state = "failed" /\ central_directory = <<>>
    /\ local_headers = <<>> /\ read_name = "" /\ read_sizes = <<>>
    /\ read_result = <<>>
    /\ root = <<>> /\ query = <<>> /\ query_result = None

\* A directory entry or a name that starts with "..": continue
ExtractSkip ==
    /\ pstate = "extract" /\ cursor <= Len(parse_input)
    /\ EndsWithSlash(parse_input[cursor]) \/ StartsWithDotDot(parse_input[cursor])
    /\ cursor' = cursor + 1
    /\ UNCHANGED <<parse_input, pstate, result, arscVars, eocdVars, zipVars, axmlVars>>

\* The entry is read and written to out_dir.join(file_name)
ExtractWrite ==
    /\ pstate = "extract" /\ cursor <= Len(parse_input)
    /\ ~EndsWithSlash(parse_input[cursor]) /\ ~StartsWithDotDot(parse_input[cursor])
    /\ ~NamesDirectory(parse_input[cursor])
    /\ result' = Append(result, [file_name |-> parse_input[cursor],
                                 outside |-> WritesOutside(parse_input[cursor])])
    /\ cursor' = cursor + 1
    /\ UNCHANGED <<parse_input, pstate, arscVars, eocdVars, zipVars, axmlVars>>

\* zip.read or File::create fails: extract returns the error
ExtractFail ==
    /\ pstate = "extract" /\ cursor <= Len(parse_input)
    /\ ~EndsWithSlash(parse_input[cursor]) /\ ~StartsWithDotDot(parse_input[cursor])
    /\ pstate' = "error"
    /\ UNCHANGED <<parse_input, cursor, result, arscVars, eocdVars, zipVars, axmlVars>>

\* The loop is over: Ok(())
ExtractDone ==
    /\ pstate = "extract" /\ cursor > Len(parse_input)
    /\ pstate' = "done"
    /\ UNCHANGED <<parse_input, cursor, result, arscVars, eocdVars, zipVars, axmlVars>>

NextExtract ==
    \/ ExtractSkip
    \/ ExtractWrite
    \/ ExtractFail
    \/ ExtractDone

SpecExtract == InitExtract /\ [][NextExtract]_vars

HasDotDotSegment(name) ==
    \E i \in DOMAIN Segments(name, <<>>, <<>>) : Segments(name, <<>>, <<>>)[i] = DotDot

\* C25 (as claimed): no entry whose name contains a `..` path segment is
\* extracted, and no file is written outside the output directory.
C25_NoTraversal ==
    \A i \in DOMAIN result :
        /\ ~HasDotDotSegment(result[i].file_name)
        /\ ~result[i].outside

\* ---------------------------------------------------------------------------
\* ARSC::reference_names: the id-to-name cache and the three queries
\* ---------------------------------------------------------------------------

MaxQueries == 3

\* An entry with the index of its key in the key string pool
Keyed(entry, key) == [kind |-> entry.kind, data_type |-> entry.data_type,
                      data |-> entry.data, key |-> key]

key_strings == <<"app_name", "count">>
CachePackageName == "com.example"
CacheTypeName == "string"

\* ResTablePackage::get_entry_full_name: package_name/type_name:entry_key,
\* None when the key pool has no string at the entry's key index
get_entry_full_name(entry, type_id) ==
    IF PoolGet(key_strings, entry.key).some
    THEN Some(CachePackageName \o "/" \o CacheTypeName \o ":" \o PoolGet(key_strings, entry.key).val)
    ELSE None

CacheId(entry_id) == generate_res_id(AppPackageId, TheTypeId, entry_id)

\* The tables queried: entry 0 holds a value or nothing, entry 1 a value, a
\* reference to entry 0 or to itself; keys are distinct, shared or absent
CacheTables ==
    { AppPackageId :> (DefaultConfig :> (TheTypeId :> <<Keyed(e0, k0), Keyed(e1, k1)>>)) :
        e0 \in {DefaultEntry(TypeString, 0), DefaultEntry(TypeDec, 7), NoEntry},
        e1 \in {DefaultEntry(TypeDec, 9), DefaultEntry(TypeReference, CacheId(0)),
                DefaultEntry(TypeReference, CacheId(1))},
        k0 \in {0}, k1 \in {0, 1, 2} }

CacheQueryIds == {CacheId(0), CacheId(1), CacheId(2), AbsentId}
CacheQueryNames == {"com.example/string:app_name", "com.example/string:count", "missing"}

\* ARSC::get_resource_value as a function of the table; depth counts the
\* nested calls
RECURSIVE get_resource_value(_, _, _)
get_resource_value(pkgs, id, depth) ==
    LET s == split_resource_id(id)
    IN IF s.package_id \notin DOMAIN pkgs \/ depth > MaxDepth THEN None
       ELSE LET found == get_entry(pkgs[s.package_id], DefaultConfig, s.type_id, s.entry_id)
            IN IF ~found.some THEN None
               ELSE IF found.val.kind # "Default" THEN None
               ELSE IF found.val.data_type = TypeReference
               THEN IF found.val.data = id THEN None
                    ELSE get_resource_value(pkgs, found.val.data, depth + 1)
               ELSE Some(ValueToString(found.val, global_string_pool))

\* ARSC::get_resource_name over the cache: the answer and the cache after it
get_resource_name(pkgs, reference_names, id) ==
    IF id \in DOMAIN reference_names
    THEN [answer |-> Some(reference_names[id]), reference_names |-> reference_names]
    ELSE LET s == split_resource_id(id)
             found == IF s.package_id \in DOMAIN pkgs
                      THEN get_entry(pkgs[s.package_id], DefaultConfig, s.type_id, s.entry_id)
                      ELSE None
             name == IF found.some THEN get_entry_full_name(found.val, s.type_id) ELSE None
         IN IF name.some
            THEN [answer |-> name, reference_names |-> (id :> name.val) @@ reference_names]
            ELSE [answer |-> None, reference_names |-> reference_names]

\* The ids get_resource_value_by_name may find for the name: the HashMap is
\* iterated in an unspecified order
IdsNamed(reference_names, name) == {id \in DOMAIN reference_names : reference_names[id] = name}

NoNames == [id \in {} |-> ""]
NoQuery == [op |-> "", id |-> 0, name |-> ""]

InitCache ==
    /\ packages \in CacheTables
    /\ result = NoNames
    /\ parse_input = NoQuery
    /\ grv_result = None
    /\ cursor = 0
    /\ pstate = "cache"
    /\ grv_stack = <<>> /\ grv_state = "idle"
    /\ eocd_input = <<>> /\ chunk_size = 0 /\ eocd_end = 0
    /\ eocd_state = "done" /\ eocd_result = None
    /\ zip_raw = <<>> /\ zip_state = "failed" /\ central_directory = <<>>
    /\ local_headers = <<>> /\ read_name = "" /\ read_sizes = <<>>
    /\ read_result = <<>>
    /\ root = <<>> /\ query = <<>> /\ query_result = None

\* ARSC::get_resource_value(id)
QueryValue(id) ==
    /\ pstate = "cache" /\ cursor < MaxQueries
    /\ parse_input' = [op |-> "get_resource_value", id |-> id, name |-> ""]
    /\ grv_result' = get_resource_value(packages, id, 0)
    /\ cursor' = cursor + 1
    /\ UNCHANGED <<packages, grv_stack, grv_state, result, pstate, eocdVars, zipVars, axmlVars>>

\* ARSC::get_resource_name(id)
QueryName(id) ==
    /\ pstate = "cache" /\ cursor < MaxQueries
    /\ parse_input' = [op |-> "get_resource_name", id |-> id, name |-> ""]
    /\ grv_result' = get_resource_name(packages, result, id).answer
    /\ result' = get_resource_name(packages, result, id).reference_names
    /\ cursor' = cursor + 1
    /\ UNCHANGED <<packages, grv_stack, grv_state, pstate, eocdVars, zipVars, axmlVars>>

\* ARSC::get_resource_value_by_name(name)
QueryValueByName(name) ==
    /\ pstate = "cache" /\ cursor < MaxQueries
    /\ parse_input' = [op |-> "get_resource_value_by_name", id |-> 0, name |-> name]
    /\ IF IdsNamed(result, name) = {} THEN grv_result' = None
       ELSE \E id \in IdsNamed(result, name) :
                grv_result' = get_resource_value(packages, id, 0)
    /\ cursor' = cursor + 1
    /\ UNCHANGED <<packages, grv_stack, grv_state, result, pstate, eocdVars, zipVars, axmlVars>>

NextCache ==
    \/ \E id \in CacheQueryIds : QueryValue(id)
    \/ \E id \in CacheQueryIds : QueryName(id)
    \/ \E name \in CacheQueryNames : QueryValueByName(name)

SpecCache == InitCache /\ [][NextCache]_vars

\* What the last query returns as the first query on the freshly parsed table
FreshAnswer ==
    CASE parse_input.op = "get_resource_value" ->
            get_resource_value(packages, parse_input.id, 0)
      [] parse_input.op = "get_resource_name" ->
            get_resource_name(packages, NoNames, parse_input.id).answer
      [] OTHER -> None

\* C27 (as claimed): the cache is unobservable: each of the three queries
\* returns, after any sequence of earlier queries, what it returns as the
\* first query on a freshly parsed ARSC.
C27_CacheUnobservable ==
    (pstate = "cache" /\ parse_input # NoQuery) => grv_result = FreshAnswer

====
